---- MODULE Spec2Model ----
(***************************************************************************)
(* Model of ai_stock_backend:                                              *)
(*   src/db.py            the Bar Store (stock_daily table) and prediction *)
(*                        storage (predict_results table)                  *)
(*   src/trade_calendar.py the trading calendar                            *)
(*   src/data_fetch.py    get_stock_daily: store, primary, secondary       *)
(*   src/main.py          startup_event, shutdown_event                    *)
(*   src/backtest.py      backtest_ai_strategy and its cache               *)
(*   src/predict.py       predict_signal                                   *)
(*   src/utils.py         the backtest over the scanned symbols            *)
(*                                                                         *)
(* Specifications: Spec (get_stock_daily and the shutdown), StoreSpec      *)
(* (batch_insert_stock_data alone), CacheSpec (the backtest cache),        *)
(* PredSpec (save_predict_result), SigSpec (predict_signal), ClassSpec     *)
(* (the signal of a prediction), QuerySpec (the queries of the trading     *)
(* calendar), CalSpec (get_trade_calendar and its cache), FeatSpec         *)
(* (calc_features_safe), ScanSpec (the selection of a scanned day),        *)
(* StageSpec (concurrent batch_insert_stock_data on SQLite), TradeSpec     *)
(* (the trades of backtest_ai_strategy), WalkSpec (its walk-forward        *)
(* loop).  A variable of a call that is not under way holds a record with  *)
(* one field.                                                              *)
(*                                                                         *)
(* Units.  A date is a day number.  A timestamp is a number of seconds,    *)
(* day * 86400 + seconds of the day.  A price is a number of tenths of a   *)
(* yuan (0.1 is 1, 1000 is 10000).  Dates and timestamps are compared as   *)
(* values: the representation in which the database driver hands them back *)
(* is not part of the model.                                               *)
(***************************************************************************)
EXTENDS Integers, FiniteSets, Sequences, TLC

\* ------------------------------------------------------------------ bounds
\* number of instants at which the clock is sampled
Samples == 4
\* number of get_stock_daily calls in a behaviour
MaxCalls == 2
\* number of batch_insert_stock_data calls in a behaviour of the store alone
MaxWrites == 2

\* ------------------------------------------------------- program constants
\* len(df) >= 100
MinRows == 100
\* close > 0.1, in tenths
CloseLow == 1
\* close < 1000, in tenths
CloseHigh == 10000
\* volume * 100: lots to shares
LotSize == 100
\* for attempt in range(3), primary
PrimaryAttempts == 3
\* for attempt in range(3), secondary
SecondaryAttempts == 3
\* " 15:00:00"
CloseHour == 15
\* None, as returned by get_previous_trading_day
NoDay == 0

SecondsPerHour == 60 * 60
SecondsPerDay == 24 * SecondsPerHour

\* ------------------------------------------------------------- environment
\* the symbols of the table, and the symbol get_stock_daily is called for
Symbols == {"600000", "000001"}
CallSymbols == {"600000"}

\* The clock starts on the first day on which a history that goes back to
\* day 1 has more than MinRows bars.
FirstDay == MinRows + 1

\* the cached calendar: every day up to FirstDay is a trading day, the two
\* days after it are not (a weekend), the days after those are again
trade_dates == (1..FirstDay) \cup ((FirstDay + 3)..(FirstDay + 7))

HMS(h, m, s) == h * SecondsPerHour + m * 60 + s

\* the times of day at which the clock is sampled
TimesOfDay == {HMS(10, 0, 0), HMS(15, 0, 0), HMS(16, 0, 0)}

\* the first Samples of those times, from FirstDay on
Instants ==
    LET all == {d * SecondsPerDay + s : d \in FirstDay..(FirstDay + Samples), s \in TimesOfDay}
    IN {t \in all : Cardinality({u \in all : u < t}) < Samples}

\* datetime fields of a timestamp
DateOf(t) == t \div SecondsPerDay
HourOf(t) == (t % SecondsPerDay) \div SecondsPerHour
MinuteOf(t) == ((t % SecondsPerDay) % SecondsPerHour) \div 60

SetMax(S) == CHOOSE x \in S : \A y \in S : y <= x

\* the last day of the clock
MaxDay == DateOf(SetMax(Instants))

\* ---------------------------------------------------------------- providers
\* Run-length encoding of the old history.  A record with days = n stands
\* for the n daily bars dated date-n+1 .. date, which have the same values
\* and are always fetched, cleaned and written together.  The bars of the
\* days 2 .. FirstDay-2 are one such record; every other bar is a record
\* with days = 1.
ArchiveDay == FirstDay - 2
ArchiveDays == ArchiveDay - 1

\* The bar a provider reports for a date, by kind.  "A" is what the primary
\* provider reports (volume in lots), "B" what the secondary reports (volume
\* in shares, zero on that day), "C" the bar of a day still trading.  The
\* other kinds fail one of the validations: "low" closes at 0.1, "high" at
\* 1000, "neg" has a negative volume, "nan" has a field that is no number.
RawBar(d, kind) ==
    [date |-> d,
     days |-> IF d = ArchiveDay THEN ArchiveDays ELSE 1,
     open |-> IF kind = "B" THEN 1050 ELSE IF kind = "C" THEN 107 ELSE 104,
     high |-> IF kind = "B" THEN 1090 ELSE IF kind = "C" THEN 110 ELSE 106,
     low |-> IF kind = "B" THEN 1040 ELSE IF kind = "C" THEN 101 ELSE 103,
     close |-> CASE kind = "low" -> CloseLow
                 [] kind = "high" -> CloseHigh
                 [] kind = "B" -> 1080
                 [] kind = "C" -> 109
                 [] OTHER -> 105,
     volume |-> CASE kind = "neg" -> -1
                  [] kind = "B" -> 0
                  [] kind = "C" -> 3
                  [] OTHER -> 7,
     numeric |-> kind # "nan"]

BadKinds == {"low", "high", "neg"}

\* the dates whose bars are records of the model
BarDates == {1} \cup (ArchiveDay..MaxDay)

\* A history response: the bars of the trading days first..last, of kind
\* good, except that the latest bar is of kind bad when bad is not "none".
HistRows(first, last, good, bad) ==
    LET dates == {d \in BarDates \cap trade_dates : first <= d /\ d <= last}
    IN {RawBar(d, IF d = SetMax(dates) /\ bad # "none" THEN bad ELSE good) : d \in dates}

\* the full-history responses of a provider on day today
HistResponses(today, good, bads) ==
    {HistRows(f, l, good, b) : f \in {1, 2}, l \in {today - 1, today}, b \in {"none"} \cup bads}

\* the responses to the query for today's bar alone
TodayResponses(today) == {{}} \cup {{RawBar(today, k)} : k \in {"C"} \cup BadKinds}

\* The bars of a response that are valid as the specification states it:
\* every field a number, 0.1 < close < 1000 and a volume of at least 0
\* shares; unit is the number of shares in the provider's unit of volume.
ValidBars(rows, unit) ==
    {r \in rows : r.numeric /\ 1 < r.close /\ r.close < 10000 /\ r.volume * unit >= 0}

\* what a provider call does: it raises, it reports an error code, or it
\* answers with rows (none: an empty response)
Raises == [kind |-> "exception", rows |-> {}]
ErrorCode == [kind |-> "error", rows |-> {}]
Rows(rs) == [kind |-> "rows", rows |-> rs]

TodayOutcomes(today) == {Raises} \cup {Rows(rs) : rs \in TodayResponses(today)}
PrimaryOutcomes(today) ==
    {Raises, Rows({})} \cup {Rows(rs) : rs \in HistResponses(today, "A", BadKinds)}
SecondaryOutcomes(today) ==
    {Raises, ErrorCode, Rows({})}
        \cup {Rows(rs) : rs \in HistResponses(today, "B", BadKinds \cup {"nan"})}

\* outcomes of bs.login(): error_code '0', another error_code, an exception
LoginOutcomes == {"ok", "error", "exception"}

\* outcomes of a database write: committed, failed before the commit, or
\* committed with the failure after it (dropping the temporary table)
WriteOutcomes == {"ok", "fail", "fail_after_commit"}

\* ------------------------------------------------------------------- state
VARIABLES
    now,             \* datetime.now()
    store,           \* the rows of table stock_daily
    bs_initialized,  \* data_fetch._bs_initialized
    pc,              \* position of the get_stock_daily call
    sym,             \* its symbol
    attempt,         \* its loop variable
    ret,             \* the series it returns
    source,          \* the branch that produced ret
    is_complete,     \* its is_complete
    db_empty,        \* whether its df_db is empty
    nPrimary,        \* full-history queries it sent to the primary provider
    nSecondary,      \* history queries it sent to the secondary provider
    refetch,         \* the date whose bar it re-fetched, or NoDay
    resp,            \* the rows of the response to its query for today's bar
    respLen,         \* number of bars of the latest history response
    respValid,       \* number of those bars that are valid
    calls,           \* calls started
    lastWrite,       \* per (symbol, date): the row of the latest committed write,
                     \* and whether a committed write changed the values of the key
    session,         \* the session of the secondary provider: "none", "open", or
                     \* "failed" (logged in, a query has failed on it)
    lastQuery,       \* the latest secondary query of the call: the session it
                     \* was sent on, its result, and whether an earlier query
                     \* of the call failed
    utils_bs_initialized,  \* utils._bs_initialized
    running,         \* the application has not been shut down
    btime,           \* time.time()
    backtest_cache,  \* backtest._backtest_cache: per key the payload, or NoPayload
    last_backtest_update,  \* backtest._last_backtest_update: per key the
                     \* timestamp, 0 where the key is absent
    cache_file,      \* the content of backtest_cache.pkl
    bt,              \* per thread: its call of backtest_ai_strategy_cached
    bevent,          \* the latest completed call, or the restart, of the process
    ncalls,          \* calls of backtest_ai_strategy_cached started
    nrestarts,       \* restarts of the process
    lastCall,        \* the latest completed call of this process
    overlapped,      \* two calls of this process have been in flight together
    predict_results, \* the rows of table predict_results
    sp,              \* per thread: its call of save_predict_result
    nsaves,          \* calls of save_predict_result started
    lastSave,        \* per (stock_code, predict_date): the latest committed write
    ps,              \* the latest call of predict_signal: what its stages did
                     \* and what it returned
    sg,              \* the latest classification of predict_signal: its inputs
                     \* and the signal
    cq,              \* the latest query of the calendar: the function, its
                     \* arguments and what it returned
    fv,              \* the latest call of calc_features_safe: the window and
                     \* what it returned
    ctime,           \* time.time(), as get_trade_calendar reads it
    trade_calendar_cache,  \* trade_calendar._trade_calendar_cache
    last_trade_calendar_update,  \* trade_calendar._last_trade_calendar_update
    calendar_file,   \* the content of trade_calendar_cache.pkl
    cevent,          \* the latest call of get_trade_calendar, or the restart,
                     \* and the time of the latest rebuild
    temp_stock_daily,  \* the staging table temp_stock_daily of the SQLite backend
    ins,             \* per thread: its call of batch_insert_stock_data
    bk,              \* the walk-forward loop of backtest_ai_strategy: the
                     \* block it is at and the bars it has simulated
    sim,             \* the trade simulation of backtest_ai_strategy: capital,
                     \* shares, trades and the bar it is at
    sc               \* the latest day of the scan backtest of utils: its inputs,
                     \* the signals and the selection

vars == <<now, store, bs_initialized, pc, sym, attempt, ret, source, is_complete, db_empty,
          respLen, nPrimary, nSecondary, refetch, resp, respValid, calls, lastWrite,
          session, lastQuery, utils_bs_initialized, running,
          btime, backtest_cache, last_backtest_update, cache_file, bt, bevent, ncalls,
          nrestarts, lastCall, overlapped, predict_results, sp, nsaves, lastSave, ps, sg, cq, fv,
          ctime, trade_calendar_cache, last_trade_calendar_update, calendar_file, cevent,
          temp_stock_daily, ins, bk, sim, sc>>

callVars == <<sym, attempt, ret, source, is_complete, db_empty, respLen, nPrimary, nSecondary, refetch, resp,
              respValid, lastQuery>>

\* the state of the process besides the acquisition layer's flag
\* the state of module backtest and of its callers
cacheVars == <<btime, backtest_cache, last_backtest_update, cache_file, bt, bevent, ncalls,
               nrestarts, lastCall, overlapped>>

\* the state of prediction storage and of the callers of save_predict_result
predVars == <<predict_results, sp, nsaves, lastSave>>

\* the state of the caller of predict_signal
sigVars == <<ps>>

\* the calls of the functions that are checked alone
libVars == <<sg, cq, fv>>

\* the state of module trade_calendar and of the callers of get_trade_calendar
calVars == <<ctime, trade_calendar_cache, last_trade_calendar_update, calendar_file, cevent>>

\* the staging table and the callers of batch_insert_stock_data
stageVars == <<temp_stock_daily, ins>>

\* the runs of backtest_ai_strategy and of the scan backtest
simVars == <<bk, sim, sc>>

\* the state of the other modules of the process
extVars == <<cacheVars, predVars, sigVars, libVars, calVars, stageVars, simVars>>

procVars == <<session, utils_bs_initialized, running, extVars>>

\* ---------------------------------------------------------- trade_calendar
\* what get_trade_calendar() returns: the cache dictionary, which is empty
\* (present is false) or holds the list trade_dates
CachedCalendar == [present |-> TRUE, trade_dates |-> trade_dates]

\* an exception; None is NoDay where a date is expected
Raised == [kind |-> "raised", date |-> NoDay]
ReturnsNone == [kind |-> "none", date |-> NoDay]
\* a date that is returned
Found(d) == [kind |-> "date", date |-> d]

SetMin(S) == CHOOSE x \in S : \A y \in S : x <= y

is_trading_day(d, cal) == cal.present /\ d \in cal.trade_dates

\* the loop of get_next_trading_day: step forward one day at a time while
\* result <= trade_dates[-1]
RECURSIVE NextLoop(_, _, _, _)
NextLoop(result, found_count, count, dates) ==
    IF ~(result <= SetMax(dates)) THEN ReturnsNone
    ELSE LET r == result + 1
         IN IF r \in dates
            THEN IF found_count + 1 = count THEN Found(r)
                 ELSE NextLoop(r, found_count + 1, count, dates)
            ELSE NextLoop(r, found_count, count, dates)

get_next_trading_day_inclusive(d, count, cal) ==
    IF ~cal.present THEN ReturnsNone
    ELSE IF cal.trade_dates = {} THEN Raised
    ELSE IF d \in cal.trade_dates /\ count = 1 THEN Found(d)
    ELSE NextLoop(d, 0, count, cal.trade_dates)

\* get_next_trading_day(date, count): None without a calendar, IndexError on
\* trade_dates[-1] of an empty list, else the loop
get_next_trading_day(d, count, cal) ==
    IF ~cal.present THEN ReturnsNone
    ELSE IF cal.trade_dates = {} THEN Raised
    ELSE NextLoop(d, 0, count, cal.trade_dates)

\* the loop of get_previous_trading_day: step back one day at a time while
\* result >= trade_dates[0]
RECURSIVE PrevLoop(_, _, _, _)
PrevLoop(result, found_count, count, dates) ==
    IF ~(result >= SetMin(dates)) THEN ReturnsNone
    ELSE LET r == result - 1
         IN IF r \in dates
            THEN IF found_count + 1 = count THEN Found(r)
                 ELSE PrevLoop(r, found_count + 1, count, dates)
            ELSE PrevLoop(r, found_count, count, dates)

get_previous_trading_day_inclusive(d, count, cal) ==
    IF ~cal.present THEN ReturnsNone
    ELSE IF cal.trade_dates = {} THEN Raised
    ELSE IF d \in cal.trade_dates /\ count = 1 THEN Found(d)
    ELSE PrevLoop(d, 0, count, cal.trade_dates)

\* get_previous_trading_day(date, count): None without a calendar, IndexError
\* on trade_dates[0] of an empty list, else the loop
get_previous_trading_day(d, count, cal) ==
    IF ~cal.present THEN ReturnsNone
    ELSE IF cal.trade_dates = {} THEN Raised
    ELSE PrevLoop(d, 0, count, cal.trade_dates)

\* get_current_trading_day() at time t
get_current_trading_day(t, cal) ==
    IF is_trading_day(DateOf(t), cal) THEN Found(DateOf(t))
    ELSE get_previous_trading_day(DateOf(t), 1, cal)

\* datetime.weekday(): 0 is a Monday; FirstDay is a Friday
Weekday(d) == (d - FirstDay + 4) % 7

is_trading_hours_no_break(t, cal) ==
    IF Weekday(DateOf(t)) >= 5 THEN FALSE
    ELSE IF ~is_trading_day(DateOf(t), cal) THEN FALSE
    ELSE 9 <= HourOf(t) /\ HourOf(t) < 15 /\ (HourOf(t) > 9 \/ MinuteOf(t) >= 30)

\* is_trading_hours() at time t
is_trading_hours(t, cal) ==
    LET current_hour == HourOf(t)
        current_minute == MinuteOf(t)
    IN  IF Weekday(DateOf(t)) >= 5 THEN FALSE
        ELSE IF ~is_trading_day(DateOf(t), cal) THEN FALSE
        ELSE IF 9 <= current_hour /\ current_hour < 15
        THEN IF \/ (current_hour = 9 /\ current_minute >= 30)
                \/ (10 <= current_hour /\ current_hour < 11)
                \/ (current_hour = 11 /\ current_minute <= 30)
                \/ (13 <= current_hour /\ current_hour < 15)
             THEN TRUE
             ELSE FALSE
        ELSE FALSE

\* the calendars of the queries: the days from the Monday before FirstDay to
\* the Friday after it
HorizonDays == (FirstDay - 4)..(FirstDay + 7)
Weekdays == {d \in HorizonDays : Weekday(d) < 5}

\* no calendar, a calendar without trading days, every weekday, the weekdays
\* without a holiday of two days after the weekend, one trading day
QueryCalendars ==
    {[present |-> FALSE, trade_dates |-> {}],
     [present |-> TRUE, trade_dates |-> {}],
     [present |-> TRUE, trade_dates |-> Weekdays],
     [present |-> TRUE, trade_dates |-> Weekdays \ {FirstDay + 3, FirstDay + 4}],
     [present |-> TRUE, trade_dates |-> {FirstDay}]}

\* the dates of the queries: from two days before the horizon to three days
\* after it
QueryDates == (FirstDay - 6)..(FirstDay + 10)

\* the values of count
QueryCounts == 1..3

\* the times of the queries of the clock: every minute of a Friday, of the
\* Saturday and of the Monday after it
QueryTimes ==
    {d * SecondsPerDay + HMS(h, m, 0) :
        d \in {FirstDay, FirstDay + 1, FirstDay + 3}, h \in 0..23, m \in 0..59}

NoQueryYet == [fn |-> "none"]

\* ------------------------------------------------------ calc_features_safe
\* if len(df_slice) < 60
MinFeatureRows == 60

\* A number is a fraction num / den of integers, den > 0, or it is not
\* finite: the inf or nan of a division by zero.
Num(a, b) == [finite |-> TRUE, num |-> a, den |-> b]
Whole(a) == Num(a, 1)
NotFinite == [finite |-> FALSE]

\* a / b of integers, b >= 0
Div(a, b) == IF b = 0 THEN NotFinite ELSE Num(a, b)

\* 100 - (100 / (1 + rs)) of a fraction rs >= 0
RsiOf(rs) ==
    IF ~rs.finite \/ rs.num + rs.den = 0 THEN NotFinite
    ELSE Num(100 * (rs.num + rs.den) - 100 * rs.den, rs.num + rs.den)

\* A window of bars: close and volume as functions of the position counted
\* from the end, 1 for iloc[-1].  The windows are of three runs of equal
\* bars: the latest k1 bars, the k2 bars before them, and the rest.
WindowLens == {0, MinFeatureRows - 1, MinFeatureRows, MinFeatureRows + 1}
RunLens == {<<1, 4>>, <<5, 15>>, <<6, 8>>}
\* valid closes, in tenths, and valid volumes
Closes == {CloseLow + 1, 105, CloseHigh - 1}
Volumes == {0, 7}
RunBars == [close : Closes, volume : Volumes]

Window(n, ks, b1, b2, b3) ==
    [j \in 1..n |-> IF j <= ks[1] THEN b1 ELSE IF j <= ks[1] + ks[2] THEN b2 ELSE b3]

Max0(x) == IF x > 0 THEN x ELSE 0

\* the sum of f over lo .. hi
RECURSIVE SumOf(_, _, _)
SumOf(f, lo, hi) == IF lo > hi THEN 0 ELSE f[lo] + SumOf(f, lo + 1, hi)

\* features['vol_ratio_5'] without the test of vol_ma5
vol_ratio_5_unguarded(last_volume, vol_sum5) == Div(last_volume * 5, vol_sum5)

\* volume.iloc[-1] / vol_ma5 if vol_ma5 != 0 else 1, vol_ma5 = vol_sum5 / 5
vol_ratio_5(last_volume, vol_sum5) ==
    IF vol_sum5 # 0 THEN Div(last_volume * 5, vol_sum5) ELSE Whole(1)

\* calc_features_safe(df_slice): None, or the features.  std is not
\* computed: bb_std stands for it with the spread of the closes, which is 0
\* where std is 0 and above 0 where std is.  The sums of ewm() divide by
\* powers of constants and stand as an integer.
calc_features_safe(w) ==
    LET n == Cardinality(DOMAIN w)
        close == [j \in DOMAIN w |-> w[j].close]
        volume == [j \in DOMAIN w |-> w[j].volume]
        sum5 == SumOf(close, 1, 5)
        sum20 == SumOf(close, 1, 20)
        sum60 == SumOf(close, 1, 60)
        delta == [j \in 1..14 |-> close[j] - close[j + 1]]
        gain == SumOf([j \in 1..14 |-> Max0(delta[j])], 1, 14)
        loss == SumOf([j \in 1..14 |-> Max0(-delta[j])], 1, 14)
        rs == IF loss # 0 THEN Div(gain, loss) ELSE Whole(0)
        macd == IF n >= 26 THEN Whole(close[1] - close[26]) ELSE Whole(0)
        tail20 == {close[j] : j \in 1..20}
        bb_std == SetMax(tail20) - SetMin(tail20)
        bb_width == 4 * bb_std
    IN  IF n < MinFeatureRows THEN [kind |-> "none"]
        ELSE [kind |-> "features",
              mom_5 |-> IF n >= 6 THEN Div(close[1] - close[6], close[6]) ELSE Whole(0),
              mom_20 |-> IF n >= 21 THEN Div(close[1] - close[21], close[21]) ELSE Whole(0),
              ma5 |-> Div(sum5, 5),
              ma20 |-> Div(sum20, 20),
              ma60 |-> IF n >= 60 THEN Div(sum60, 60) ELSE Div(sum20, 20),
              ma_align |-> Whole(IF sum5 * 4 > sum20 /\ sum20 * 3 > sum60 THEN 1 ELSE 0),
              price_to_ma20 |-> Div(close[1] * 20 - sum20, sum20),
              rsi_14 |-> IF n >= 15
                         THEN IF rs # Whole(0) THEN RsiOf(rs) ELSE Whole(50)
                         ELSE Whole(50),
              macd_dif |-> macd,
              macd_dea |-> macd,
              macd_hist |-> macd,
              macd_bullish |-> Whole(IF n >= 26 /\ macd.num > 0 THEN 1 ELSE 0),
              vol_ratio_5 |-> vol_ratio_5(volume[1], SumOf(volume, 1, 5)),
              bb_width |-> IF n >= 20 THEN Div(bb_width * 20, sum20) ELSE Whole(0),
              bb_position |-> IF n >= 20
                              THEN IF bb_width # 0
                                   THEN Div(close[1] * 20 - sum20 + 40 * bb_std,
                                            20 * bb_width)
                                   ELSE Num(1, 2)
                              ELSE Num(1, 2),
              price_above_bb_upper |->
                  Whole(IF n >= 20 /\ close[1] * 20 > sum20 + 40 * bb_std THEN 1 ELSE 0),
              price_below_bb_lower |->
                  Whole(IF n >= 20 /\ close[1] * 20 < sum20 - 40 * bb_std THEN 1 ELSE 0)]

\* the keys of the dictionary features
FeatureNames ==
    {"mom_5", "mom_20", "ma5", "ma20", "ma60", "ma_align", "price_to_ma20", "rsi_14",
     "macd_dif", "macd_dea", "macd_hist", "macd_bullish", "vol_ratio_5", "bb_width",
     "bb_position", "price_above_bb_upper", "price_below_bb_lower"}

\* the validity of the cached calendar, in seconds
CalTTL == 7 * 24 * 3600

\* the clock of get_trade_calendar is sampled every half CalTTL, CalTicks
\* times after the process first started
CalStep == CalTTL \div 2
CalTicks == 3
CalEpoch == 2 * CalTTL

\* _trade_calendar_cache = {}
NoCalendar == [present |-> FALSE, trade_dates |-> {}]
\* _last_trade_calendar_update = None
NoUpdate == 0

\* the calendar of the exchange, as the source reports it: the weekdays
\* without a holiday of two days; and the calendar of lines 113-116: every
\* weekday
ExchangeCalendar == [present |-> TRUE, trade_dates |-> Weekdays \ {FirstDay + 3, FirstDay + 4}]
WeekdayCalendar == [present |-> TRUE, trade_dates |-> Weekdays]

\* the source answers with the calendar, or the call of it fails (it raises,
\* or akshare has none of the three functions)
SourceOutcomes == {"ok", "fail"}

NoCalendarFile == [exists |-> FALSE]

\* save_trade_calendar_cache(): pickle.dump, whose failure is logged
CalSaveOutcomes == {"ok", "fail"}
save_trade_calendar_cache(file, cache, last, outcome) ==
    IF outcome = "ok" THEN [exists |-> TRUE, calendar |-> cache, last_update |-> last]
    ELSE file

\* _trade_calendar_cache and _last_trade_calendar_update and
\* (time.time() - _last_trade_calendar_update < 7 * 24 * 3600)
CalendarFresh(cache, last, t) ==
    cache.present /\ last # NoUpdate /\ t - last < CalTTL

\* lines 91-116: the calendar of the source, or on its failure every weekday
Rebuilt(outcome) == IF outcome = "ok" THEN ExchangeCalendar ELSE WeekdayCalendar

\* ---------------------------------------------------------------------- db
StockDaily(symbol, bar, t) ==
    [symbol |-> symbol, date |-> bar.date, days |-> bar.days, open |-> bar.open,
     high |-> bar.high, low |-> bar.low, close |-> bar.close, volume |-> bar.volume,
     update_time |-> t]

Bar(row) ==
    [date |-> row.date, days |-> row.days, open |-> row.open, high |-> row.high,
     low |-> row.low, close |-> row.close, volume |-> row.volume]

\* INSERT INTO stock_daily without a key: the rows of the batch are added
InsertOrReplace_append(st, df, symbol, t) ==
    st \cup {StockDaily(symbol, b, t) : b \in df}

\* INSERT OR REPLACE INTO stock_daily ... (ON DUPLICATE KEY UPDATE on MySQL):
\* the rows of the batch replace the stored rows with their key
InsertOrReplace(st, df, symbol, t) ==
    {r \in st : ~(r.symbol = symbol /\ \E b \in df : b.date = r.date)}
        \cup {StockDaily(symbol, b, t) : b \in df}

\* the table after batch_insert_stock_data(df, symbol) at time t
batch_insert_stock_data(st, df, symbol, t, outcome) ==
    IF outcome = "fail" THEN st ELSE InsertOrReplace(st, df, symbol, t)

query_stock_data(st, symbol) == {Bar(r) : r \in {x \in st : x.symbol = symbol}}

\* check_data_completeness without the test of the latest date
check_data_completeness_no_date(st, symbol, as_of_date, t) ==
    LET rows == {r \in st : r.symbol = symbol}
        latest_update == SetMax({r.update_time : r \in rows})
    IN IF rows = {} THEN FALSE ELSE latest_update > as_of_date

check_data_completeness(st, symbol, as_of_date, t) ==
    LET rows == {r \in st : r.symbol = symbol}
        latest_date == SetMax({r.date : r \in rows})
        latest_update == SetMax({r.update_time : r \in rows})
    IN IF rows = {} THEN FALSE
       ELSE IF latest_date # get_current_trading_day(t, CachedCalendar).date THEN FALSE
       ELSE latest_update > as_of_date

\* -------------------------------------------------------------- data_fetch
\* CleanPrimary without the upper limit of close
CleanPrimary_no_upper(rows) ==
    {b \in {[r EXCEPT !.volume = r.volume * LotSize] : r \in rows} :
        b.close > CloseLow /\ b.volume >= 0}

\* df['volume'] * 100, then the three filters
CleanPrimary(rows) ==
    {b \in {[r EXCEPT !.volume = r.volume * LotSize] : r \in rows} :
        b.close > CloseLow /\ b.close < CloseHigh /\ b.volume >= 0}

\* pd.to_numeric(errors='coerce'), dropna, then the three filters
CleanSecondary(rows) ==
    {b \in {r \in rows : r.numeric} :
        b.close > CloseLow /\ b.close < CloseHigh /\ b.volume >= 0}

\* df[['open', 'high', 'low', 'close', 'volume']]
Columns(rows) ==
    {[date |-> r.date, days |-> r.days, open |-> r.open, high |-> r.high,
      low |-> r.low, close |-> r.close, volume |-> r.volume] : r \in rows}

\* len(df): the number of daily bars the records stand for
RECURSIVE NumBars(_)
NumBars(df) ==
    IF df = {} THEN 0
    ELSE LET r == CHOOSE x \in df : TRUE IN r.days + NumBars(df \ {r})

\* len(df) >= 99
Enough_99(df) == NumBars(df) >= MinRows - 1

\* len(df) >= 100
Enough(df) == NumBars(df) >= MinRows

\* the inline trading-hours test of get_stock_daily
InTradingHours(t) ==
    LET current_hour == HourOf(t)
        current_minute == MinuteOf(t)
    IN /\ 9 <= current_hour /\ current_hour < 15
       /\ \/ (current_hour = 9 /\ current_minute >= 30)
          \/ (10 <= current_hour /\ current_hour < 11)
          \/ (current_hour = 11 /\ current_minute <= 30)
          \/ (13 <= current_hour /\ current_hour < 15)

\* is_trading_day = True
PatchIsTradingDay(t) == TRUE

\* as_of_date at the opening of the current trading day instead of its close
AsOf_open(t) == get_current_trading_day(t, CachedCalendar).date * SecondsPerDay + 9 * SecondsPerHour

\* last_trading_day.strftime("%Y-%m-%d") + " 15:00:00"
AsOf(t) == get_current_trading_day(t, CachedCalendar).date * SecondsPerDay + CloseHour * SecondsPerHour

Committed(symbol, df, t) ==
    [k \in DOMAIN lastWrite |->
        IF k[1] = symbol /\ \E b \in df : b.date = k[2]
        THEN LET row == StockDaily(symbol, CHOOSE b \in df : b.date = k[2], t)
             IN [rows |-> {row},
                 replaced |-> lastWrite[k].replaced
                                 \/ \E old \in lastWrite[k].rows : Bar(old) # Bar(row)]
        ELSE lastWrite[k]]

\* ---------------------------------------------------------- backtest cache
\* the validity of a cache entry, in seconds
TTL == 24 * 3600

\* the clock of the cache is sampled every half TTL, CacheTicks times after the
\* process first started
CacheStep == TTL \div 2
CacheTicks == 2
CacheEpoch == 2 * TTL

\* calls of backtest_ai_strategy_cached, and restarts of the process
MaxBacktests == 3
MaxRestarts == 1

\* the callers of backtest_ai_strategy_cached
Threads == {"request", "scheduler"}

\* the parameters of backtest_ai_strategy_cached: a request, the same with
\* another name, and the same with another initial_capital; transaction_cost
\* is written as the f-string writes it
DefaultRequest ==
    [symbol |-> "600000", name |-> "PFYH", start_date |-> "2023-01-01",
     end_date |-> "2024-12-31", initial_capital |-> 100000, transaction_cost |-> "0.001"]
BacktestRequests ==
    {DefaultRequest,
     [DefaultRequest EXCEPT !.name = "SPDB"],
     [DefaultRequest EXCEPT !.initial_capital = 200000]}

\* the requests of a thread: the scheduler calls with the default parameters
RequestsOf(t) == IF t = "scheduler" THEN {DefaultRequest} ELSE BacktestRequests

\* cache_key = f"{symbol}_{start_date}_{end_date}_{initial_capital}_{transaction_cost}"
cache_key(r) ==
    r.symbol \o "_" \o r.start_date \o "_" \o r.end_date \o "_"
        \o ToString(r.initial_capital) \o "_" \o r.transaction_cost

BacktestKeys == {cache_key(r) : r \in BacktestRequests}

\* no request
NoRequest == [symbol |-> ""]

\* None; a payload is the result of a run of backtest_ai_strategy: the
\* parameters it was computed from and the time of the run, which stands for
\* the data the run fetched
NoPayload == [asof |-> 0]

NoEntry == [ts |-> 0]
NoCall == [made |-> FALSE]

\* _backtest_cache = {} and _last_backtest_update = {}
EmptyCache == [k \in BacktestKeys |-> NoPayload]
EmptyUpdate == [k \in BacktestKeys |-> 0]

NoFile == [exists |-> FALSE, cache |-> EmptyCache, last_update |-> EmptyUpdate]

IdleThread == [pc |-> "idle"]

NoEvent == [kind |-> "none"]

\* the entry of a key: _backtest_cache[key] and _last_backtest_update.get(key, 0)
Entry(cache, last, key) ==
    IF cache[key] # NoPayload THEN [payload |-> cache[key], ts |-> last[key]] ELSE NoEntry

CacheValid_12h(cache, last, key, t) ==
    cache[key] # NoPayload /\ t - last[key] < 12 * 3600

\* cache_key in _backtest_cache and (now - _last_backtest_update.get(cache_key, 0) < 24 * 3600)
CacheValid(cache, last, key, t) ==
    cache[key] # NoPayload /\ t - last[key] < TTL

UpdateCache_no_timestamp(cache, last, key, result, t) ==
    [cache |-> [cache EXCEPT ![key] = result], last_update |-> last]

\* _backtest_cache[cache_key] = result; _last_backtest_update[cache_key] = now
UpdateCache(cache, last, key, result, t) ==
    [cache |-> [cache EXCEPT ![key] = result], last_update |-> [last EXCEPT ![key] = t]]

\* every result is stored, None too
IsResult_always(result) == TRUE

\* if result:
IsResult(result) == result # NoPayload

\* the outcomes of backtest_ai_strategy: a result, or None (too little data, or
\* an exception, which it catches)
BacktestOutcomes == {"result", "none"}

\* pickle.dump to the file succeeds; a write that fails, which
\* save_backtest_cache logs, is not among the behaviours explored
SaveOutcomes == {"ok"}

save_backtest_cache(file, cache, last, outcome) ==
    IF outcome = "ok" THEN [exists |-> TRUE, cache |-> cache, last_update |-> last] ELSE file

\* ------------------------------------------------------ prediction storage
\* calls of save_predict_result
MaxSaves == 3

\* the result dictionaries save_predict_result is called with: the key
\* (stock_code, date) and the other fields, which are written together and
\* stand here as one field, signal
PredictDates == {FirstDay + 3, FirstDay + 4}
SaveResults == [stock_code : {"600000"}, date : PredictDates, signal : {"buy", "sell"}]

\* no row: first() returned None
NoRow == 0

IdleSave == [pc |-> "idle"]

NoSave == [made |-> FALSE]

\* outcomes of the query, and of the commit: done, or an exception, on which
\* save_predict_result returns False
DbOutcomes == {"ok", "exception"}

\* the rows of a key
RowsOfKey(rows, code, date) == {r \in rows : r.stock_code = code /\ r.predict_date = date}

\* db.query(PredictResult).filter(...).first(): a row of the key, or none
First(rows, code, date) ==
    IF RowsOfKey(rows, code, date) = {} THEN {NoRow}
    ELSE {r.id : r \in RowsOfKey(rows, code, date)}

\* the fields of existing_result are assigned
UpdateRow(rows, id, result) ==
    {IF r.id = id THEN [r EXCEPT !.signal = result.signal] ELSE r : r \in rows}

\* db.add(PredictResult(...)): id is the autoincrement primary key
AddRow(rows, result) ==
    rows \cup {[id |-> Cardinality(rows) + 1, stock_code |-> result.stock_code,
                predict_date |-> result.date, signal |-> result.signal]}

\* ---------------------------------------------------------- predict_signal
\* train_window=200
TrainWindow == 200
\* len(X_train) < 50
MinSamples == 50

\* the values of parameter train_window: the default, and the least window
\* whose bars can make a training sample
TrainWindows == {MinFeatureRows, TrainWindow}

\* len(df): to either side of train_window + 1 for the two windows, and to
\* either side of the least length that makes MinSamples samples
SeriesLens ==
    {MinFeatureRows, MinFeatureRows + 1, MinFeatureRows + MinSamples - 1,
     MinFeatureRows + MinSamples, TrainWindow, TrainWindow + 1}

\* what get_stock_daily hands to predict_signal: an exception, None, an empty
\* frame, or a series of len bars whose last bar is dated last.  The index of
\* the series is sorted and has no date twice, so a bar is named by its
\* position 0 .. len-1 and the order of the positions is that of the dates.
LastBarDates == {FirstDay - 1, FirstDay, FirstDay + 7, FirstDay + 8}
DfOutcomes ==
    {[kind |-> k, len |-> 0, last |-> NoDay] : k \in {"exception", "none", "empty"}}
        \cup {[kind |-> "series", len |-> n, last |-> d] :
                  n \in SeriesLens, d \in LastBarDates}

\* what get_trade_calendar hands to get_next_trading_day: no calendar, a
\* calendar without trading days, the cached calendar, the cached calendar up
\* to FirstDay
Calendars ==
    {[present |-> FALSE, trade_dates |-> {}],
     [present |-> TRUE, trade_dates |-> {}],
     [present |-> TRUE, trade_dates |-> trade_dates],
     [present |-> TRUE, trade_dates |-> 1..FirstDay]}

\* the dictionary predict_signal builds, with every field; date is predict_date_str
ResultOf(d) == [kind |-> "result", date |-> d]

\* what a stage does: it works, or it raises
StageOutcomes == {"ok", "exception"}

\* df.index[-(train_window + 1):-1], as positions
train_dates(n, train_window) ==
    {i \in 0..(n - 1) : i >= n - (train_window + 1) /\ i < n - 1}

\* a slice of the series: the bars at positions first .. last
df_upto_next_day(idx) == [first |-> 0, last |-> idx + 1]

\* df.loc[:d]: the bars up to and including d
df_upto_d(idx) == [first |-> 0, last |-> idx]

\* df[df.index <= as_of_date], as_of_date = df.index[-1]
df_upto_as_of_date(n) == [first |-> 0, last |-> n - 1]

\* calc_features_safe(df_slice) is None: len(df_slice) < 60
NoFeatures(df_slice) == df_slice.last - df_slice.first + 1 < MinFeatureRows

\* the loop over train_dates: per sample the day d, the last bar its
\* features are computed from, and the two bars whose closes make its label
X_train(n, train_window) ==
    {[d |-> idx, upto |-> df_upto_d(idx).last, next_day |-> idx + 1] :
        idx \in {i \in train_dates(n, train_window) :
                    ~(i + 1 >= n) /\ ~NoFeatures(df_upto_d(i))}}

EnoughSamples_any(X) == TRUE

\* not (len(X_train) < 50)
EnoughSamples(X) == ~(Cardinality(X) < MinSamples)

Try_reraise(x) == x

\* try: ... except Exception: return None
Try(x) == IF x = Raised THEN ReturnsNone ELSE x

\* the body of predict_signal: data, predict_date, training samples, fit,
\* features of the latest bar, sentiment, and the result; samples, fit,
\* feat_pred and senti say whether the stage raises
predict_signal(df, cal, train_window, samples, fit, feat_pred, senti) ==
    Try(IF df.kind = "exception" THEN Raised
        ELSE IF df.kind \in {"none", "empty"} \/ df.len < train_window + 1 THEN ReturnsNone
        ELSE LET predict_date == get_next_trading_day(df.last, 1, cal)
             IN  IF predict_date.kind # "date" THEN Raised
                 ELSE IF samples = "exception" THEN Raised
                 ELSE IF ~EnoughSamples(X_train(df.len, train_window)) THEN ReturnsNone
                 ELSE IF fit = "exception" THEN Raised
                 ELSE IF feat_pred = "exception" THEN Raised
                 ELSE IF NoFeatures(df_upto_as_of_date(df.len)) THEN ReturnsNone
                 ELSE IF senti = "exception" THEN Raised
                 ELSE ResultOf(predict_date.date))

\* save_predict_result(result) in one piece: the row of the key is updated
\* or a row is added; on an exception the table is as it was
save_predict_result(rows, result, outcome) ==
    IF outcome # "ok" THEN rows
    ELSE IF RowsOfKey(rows, result.stock_code, result.date) = {} THEN AddRow(rows, result)
    ELSE UpdateRow(rows, CHOOSE id \in First(rows, result.stock_code, result.date) : TRUE,
                   result)

NoSignal == [called |-> FALSE]

\* the inputs of the classification.  prob and drawdown_5d are in hundredths
\* (0.60 is 60, 0.08 is 8), rsi is in points; the values lie at, below and
\* above the thresholds of the tests.
Probs == {45, 49, 50, 55, 57, 60, 61, 65}
Rsis == {50, 60, 69, 70, 74, 75, 76, 80}
Drawdowns == {1, 2, 8, 9}

\* what else predict_signal has in hand when it classifies
SentimentLabels == {"positive", "neutral", "negative"}

Signal_reduce_first(prob, rsi, price_above_bb, mom_weakening, drawdown_5d) ==
    IF (prob < 50) \/ (rsi > 75) \/ (price_above_bb /\ mom_weakening) \/ (drawdown_5d > 8)
    THEN "reduce"
    ELSE IF prob > 60 /\ rsi < 70 /\ ~price_above_bb /\ ~mom_weakening THEN "enter"
    ELSE "hold"

\* signal = ...: if / elif / elif / else
Signal(prob, rsi, price_above_bb, mom_weakening, drawdown_5d) ==
    IF prob > 60 /\ rsi < 70 /\ ~price_above_bb /\ ~mom_weakening THEN "enter"
    ELSE IF prob > 55 /\ rsi < 75 THEN "hold"
    ELSE IF (prob < 50) \/ (rsi > 75) \/ (price_above_bb /\ mom_weakening) \/ (drawdown_5d > 8)
    THEN "reduce"
    ELSE "hold"

\* no secondary query sent yet
\* the staging table does not exist
NoTable == [exists |-> FALSE]
\* the threads that call batch_insert_stock_data, one per symbol
Writers == Symbols
IdleInsert == [pc |-> "idle"]
\* no run of backtest_ai_strategy, no simulation, no scan
NoWalk == [pc |-> "none"]
NoSim == [pc |-> "none"]
NoScan == [called |-> FALSE]

NoQuery ==[on |-> "none", result |-> "none", failedBefore |-> FALSE,
           flag |-> FALSE, exact |-> TRUE]

Init ==
    /\ now = FirstDay * SecondsPerDay + HMS(10, 0, 0)
    /\ store = {}
    /\ bs_initialized = FALSE
    /\ pc = "idle"
    /\ sym = "600000"
    /\ attempt = 0
    /\ ret = {}
    /\ source = "none"
    /\ is_complete = FALSE
    /\ db_empty = TRUE
    /\ respLen = 0
    /\ nPrimary = 0
    /\ nSecondary = 0
    /\ refetch = NoDay
    /\ resp = {}
    /\ respValid = 0
    /\ calls = 0
    /\ lastWrite = [k \in Symbols \X BarDates |-> [rows |-> {}, replaced |-> FALSE]]
    /\ session = "none"
    /\ lastQuery = NoQuery
    /\ utils_bs_initialized = FALSE
    /\ running = TRUE
    /\ btime = CacheEpoch
    /\ backtest_cache = EmptyCache
    /\ last_backtest_update = EmptyUpdate
    /\ cache_file = NoFile
    /\ bt = [t \in Threads |-> IdleThread]
    /\ bevent = NoEvent
    /\ ncalls = 0
    /\ nrestarts = 0
    /\ lastCall = NoCall
    /\ overlapped = FALSE
    /\ predict_results = {}
    /\ sp = [t \in Threads |-> IdleSave]
    /\ nsaves = 0
    /\ lastSave = [k \in {"600000"} \X PredictDates |-> NoSave]
    /\ ps = NoSignal
    /\ sg = NoSignal
    /\ cq = NoQueryYet
    /\ fv = NoSignal
    /\ ctime = CalEpoch
    /\ trade_calendar_cache = NoCalendar
    /\ last_trade_calendar_update = NoUpdate
    /\ calendar_file = NoCalendarFile
    /\ cevent = [kind |-> "none", rebuilt |-> NoUpdate]
    /\ temp_stock_daily = NoTable
    /\ ins = [t \in Writers |-> IdleInsert]
    /\ bk = NoWalk
    /\ sim = NoSim
    /\ sc = NoScan

\* time passes between two calls: a call is short against the sampling of
\* the clock
Tick ==
    /\ pc = "idle"
    /\ running
    /\ \E t \in Instants : t > now /\ now' = t
    /\ UNCHANGED <<store, bs_initialized, pc, calls, lastWrite>>
    /\ UNCHANGED callVars
    /\ UNCHANGED procVars

\* ------------------------------------------------- get_stock_daily, step 1
\* is_complete of get_stock_daily; db_ok is false when the query of
\* check_data_completeness raises (it then returns False)
IsComplete(s, db_ok) == db_ok /\ check_data_completeness(store, s, AsOf(now), now)

\* df_db; query_ok is false when query_stock_data raises (it then returns an
\* empty frame)
DfDb(s, query_ok) == IF query_ok THEN query_stock_data(store, s) ELSE {}

CanCall == pc = "idle" /\ running /\ calls < MaxCalls

StartCall(s, complete, df_db) ==
    /\ calls' = calls + 1
    /\ sym' = s
    /\ is_complete' = complete
    /\ db_empty' = (df_db = {})
    /\ respLen' = 0
    /\ attempt' = 0
    /\ nPrimary' = 0
    /\ nSecondary' = 0
    /\ respValid' = 0
    /\ lastQuery' = NoQuery
    /\ UNCHANGED <<now, bs_initialized>>
    /\ UNCHANGED procVars

\* the store is not complete, or its query returns no rows: on to the
\* primary provider
StoreMiss ==
    /\ CanCall
    /\ \E s \in CallSymbols, db_ok \in BOOLEAN, query_ok \in BOOLEAN :
        /\ ~(IsComplete(s, db_ok) /\ DfDb(s, query_ok) # {})
        /\ StartCall(s, IsComplete(s, db_ok), IF IsComplete(s, db_ok) THEN DfDb(s, query_ok) ELSE {})
        /\ pc' = "primary"
        /\ UNCHANGED <<store, lastWrite, ret, source, refetch, resp>>

\* the store is complete and now is outside the trading hours: return df_db
StoreHit ==
    /\ CanCall
    /\ \E s \in CallSymbols :
        /\ IsComplete(s, TRUE) /\ DfDb(s, TRUE) # {}
        /\ ~(PatchIsTradingDay(now) /\ InTradingHours(now))
        /\ StartCall(s, TRUE, DfDb(s, TRUE))
        /\ pc' = "done"
        /\ ret' = DfDb(s, TRUE)
        /\ source' = "store"
        /\ UNCHANGED <<store, lastWrite, refetch, resp>>

\* df_db with the bar of today replaced by, or extended with, df_today
Reconcile(df_db, df_today, today) ==
    IF \E b \in df_db : b.date = today
    THEN {b \in df_db : b.date # today} \cup df_today
    ELSE df_db \cup df_today

\* the store is complete and now is inside the trading hours: re-fetch the
\* bar of today, clean it, write it and patch df_db with it
StorePatch ==
    /\ CanCall
    /\ PatchIsTradingDay(now) /\ InTradingHours(now)
    /\ \E s \in CallSymbols, fetched \in TodayOutcomes(DateOf(now)) :
        LET today == DateOf(now)
            df_db == DfDb(s, TRUE)
            df_today == Columns(CleanPrimary(fetched.rows))
        IN /\ IsComplete(s, TRUE) /\ df_db # {}
           /\ StartCall(s, TRUE, df_db)
           /\ pc' = "done"
           /\ refetch' = today
           /\ source' = "patch"
           /\ resp' = fetched.rows
           /\ IF df_today # {}
              THEN /\ \E outcome \in WriteOutcomes :
                        /\ store' = batch_insert_stock_data(store, df_today, s, now, outcome)
                        /\ lastWrite' = IF outcome = "fail" THEN lastWrite
                                        ELSE Committed(s, df_today, now)
                   /\ ret' = Reconcile(df_db, df_today, today)
              ELSE /\ UNCHANGED <<store, lastWrite>>
                   /\ ret' = df_db

\* ------------------------------------------------ get_stock_daily, primary
\* the primary loop gives up after two iterations
PrimaryLoop_two(a) ==
    IF a + 1 >= PrimaryAttempts - 1
    THEN [pc |-> "secondary", attempt |-> 0]
    ELSE [pc |-> "primary", attempt |-> a + 1]

\* for attempt in range(3): where the call stands after a failed iteration
PrimaryLoop(a) ==
    IF a + 1 = PrimaryAttempts
    THEN [pc |-> "secondary", attempt |-> 0]
    ELSE [pc |-> "primary", attempt |-> a + 1]

\* one iteration of the primary loop
PrimaryAttempt ==
    /\ pc = "primary"
    /\ \E fetched \in PrimaryOutcomes(DateOf(now)) :
        LET df_ak == CleanPrimary(fetched.rows)
            save_df == Columns(df_ak)
        IN /\ nPrimary' = nPrimary + 1
           /\ respLen' = NumBars(fetched.rows)
           /\ respValid' = NumBars(ValidBars(fetched.rows, LotSize))
           /\ IF fetched.rows # {} /\ Enough(df_ak)
              THEN /\ \E outcome \in WriteOutcomes :
                        /\ store' = batch_insert_stock_data(store, save_df, sym, now, outcome)
                        /\ lastWrite' = IF outcome = "fail" THEN lastWrite
                                        ELSE Committed(sym, save_df, now)
                   /\ ret' = save_df
                   /\ source' = "primary"
                   /\ pc' = "done"
                   /\ UNCHANGED attempt
              ELSE /\ attempt' = PrimaryLoop(attempt).attempt
                   /\ pc' = PrimaryLoop(attempt).pc
                   /\ UNCHANGED <<store, lastWrite, ret, source>>
           /\ UNCHANGED <<now, bs_initialized, sym, is_complete, db_empty, nSecondary, refetch, resp, calls>>
           /\ UNCHANGED <<lastQuery, session, utils_bs_initialized, running, extVars>>

\* ---------------------------------------------- get_stock_daily, secondary
\* _init_baostock(): True, and the flag set, exactly when the login succeeds
InitBaostock(login) == login = "ok"

\* _init_baostock() that leaves the flag as it was when the login fails
init_baostock_stale(flag, login) ==
    [flag |-> flag \/ login = "ok", returned |-> login = "ok"]

\* _init_baostock(): the flag after the call and the value returned.  The
\* flag is cleared before the login (line 47) or was clear, is set by a login
\* with error_code '0' (line 56) and cleared by an exception (line 61); an
\* exception of bs.logout() counts as one of the login
init_baostock(flag, login) ==
    [flag |-> InitBaostock(login), returned |-> InitBaostock(login)]

\* The connection test of one iteration, call by call: the flag when the
\* test is over, and whether every call of _init_baostock() left the flag
\* equal to the value it returned.  With the flag clear the first call is
\* not made.
ConnectionTest(flag, login1, login2) ==
    LET first == init_baostock(flag, login1)
    IN IF flag /\ first.returned
       THEN [flag |-> first.flag, exact |-> first.flag = first.returned]
       ELSE LET before == IF flag THEN first.flag ELSE flag
                second == init_baostock(before, login2)
            IN [flag |-> second.flag,
                exact |-> /\ flag => (first.flag = first.returned)
                          /\ second.flag = second.returned]

\* Whether the session is logged in after the connection test of one
\* iteration:
\*   if not _bs_initialized or not _init_baostock():
\*       if not _init_baostock(): continue
Connect(flag, login1, login2) ==
    IF flag /\ InitBaostock(login1) THEN TRUE ELSE InitBaostock(login2)

\* the session is reused while the flag is set
ConnectSession_reuse(flag, sess, login1, login2) ==
    IF flag THEN (IF sess = "failed" THEN "failed" ELSE "reused")
    ELSE IF InitBaostock(login2) THEN "fresh" ELSE "none"

\* The session the query of one iteration is sent on: "none" when the
\* iteration ends at the connection test.  Each way through the test ends
\* with a call of _init_baostock() that returned True: a login of its own.
ConnectSession(flag, sess, login1, login2) ==
    IF Connect(flag, login1, login2) THEN "fresh" ELSE "none"

\* outcomes of bs.logout()
LogoutOutcomes == {"ok", "exception"}

\* The session after one iteration.  A query that answered leaves it open; a
\* failed one is followed by _logout_baostock(), whose bs.logout() can raise;
\* an iteration that ends at the connection test has logged out (if the flag
\* was set and bs.logout() did not raise) and not logged in.
SessionsAfter(flag, sess, connected, kind) ==
    IF connected
    THEN IF kind = "rows" THEN {"open"}
         ELSE {IF lo = "ok" THEN "none" ELSE "failed" : lo \in LogoutOutcomes}
    ELSE IF flag THEN {IF lo = "ok" THEN "none" ELSE sess : lo \in LogoutOutcomes}
         ELSE {sess}

\* the secondary loop retries without counting the iteration
SecondaryLoop_uncounted(a) == [pc |-> "secondary", attempt |-> a]

\* for attempt in range(3), then return pd.DataFrame(): where the call stands
\* after a failed iteration
SecondaryLoop(a) ==
    IF a + 1 = SecondaryAttempts
    THEN [pc |-> "done", attempt |-> a + 1]
    ELSE [pc |-> "secondary", attempt |-> a + 1]

\* one iteration of the secondary loop; after the last one the call returns
\* an empty frame
SecondaryAttempt ==
    /\ pc = "secondary"
    /\ \E ct \in {[on |-> ConnectSession(bs_initialized, session, l1, l2),
                    test |-> ConnectionTest(bs_initialized, l1, l2)] :
                       l1 \in LoginOutcomes, l2 \in LoginOutcomes} :
      \E fetched \in IF ct.on # "none" THEN SecondaryOutcomes(DateOf(now)) ELSE {Raises} :
        LET on == ct.on
            test == ct.test
            connected == on # "none"
            df_bs == CleanSecondary(fetched.rows)
            save_df == Columns(df_bs)
            success == connected /\ fetched.kind = "rows" /\ fetched.rows # {}
                          /\ Enough(df_bs)
        IN /\ nSecondary' = IF connected THEN nSecondary + 1 ELSE nSecondary
           /\ respLen' = IF connected THEN NumBars(fetched.rows) ELSE respLen
           /\ respValid' = IF connected THEN NumBars(ValidBars(fetched.rows, 1)) ELSE respValid
           /\ bs_initialized' = IF connected THEN fetched.kind = "rows" ELSE test.flag
           /\ session' \in SessionsAfter(bs_initialized, session, connected, fetched.kind)
           /\ lastQuery' = [on |-> on,
                            result |-> IF connected THEN fetched.kind ELSE "none",
                            failedBefore |-> lastQuery.failedBefore
                                                \/ lastQuery.result \in {"error", "exception"},
                            flag |-> test.flag,
                            exact |-> test.exact]
           /\ UNCHANGED <<utils_bs_initialized, running, extVars>>
           /\ IF success
              THEN /\ \E outcome \in WriteOutcomes :
                        /\ store' = batch_insert_stock_data(store, save_df, sym, now, outcome)
                        /\ lastWrite' = IF outcome = "fail" THEN lastWrite
                                        ELSE Committed(sym, save_df, now)
                   /\ ret' = save_df
                   /\ source' = "secondary"
                   /\ pc' = "done"
                   /\ UNCHANGED attempt
              ELSE /\ attempt' = SecondaryLoop(attempt).attempt
                   /\ pc' = SecondaryLoop(attempt).pc
                   /\ source' = IF SecondaryLoop(attempt).pc = "done" THEN "empty" ELSE source
                   /\ UNCHANGED <<store, lastWrite, ret>>
           /\ UNCHANGED <<now, sym, is_complete, db_empty, nPrimary, refetch, resp, calls>>

\* the caller takes the result
Return ==
    /\ pc = "done"
    /\ pc' = "idle"
    /\ attempt' = 0
    /\ ret' = {}
    /\ source' = "none"
    /\ is_complete' = FALSE
    /\ db_empty' = TRUE
    /\ respLen' = 0
    /\ nPrimary' = 0
    /\ nSecondary' = 0
    /\ refetch' = NoDay
    /\ resp' = {}
    /\ respValid' = 0
    /\ lastQuery' = NoQuery
    /\ UNCHANGED <<now, store, bs_initialized, sym, calls, lastWrite>>
    /\ UNCHANGED procVars

\* ----------------------------------------------------------------- main
\* utils._logout_baostock(): logs out if the flag of utils is set
UtilsLogout(flag, sess) ==
    IF flag THEN {IF lo = "ok" THEN "none" ELSE sess : lo \in LogoutOutcomes} ELSE {sess}

\* shutdown_event: from utils import _logout_baostock; _logout_baostock()
Shutdown ==
    /\ pc = "idle"
    /\ running
    /\ running' = FALSE
    /\ session' \in UtilsLogout(utils_bs_initialized, session)
    /\ utils_bs_initialized' = FALSE
    /\ UNCHANGED <<now, store, bs_initialized, pc, calls, lastWrite>>
    /\ UNCHANGED callVars
    /\ UNCHANGED extVars

Next ==
    \/ Shutdown
    \/ Tick
    \/ StoreMiss
    \/ StoreHit
    \/ StorePatch
    \/ PrimaryAttempt
    \/ SecondaryAttempt
    \/ Return

Spec == Init /\ [][Next]_vars

\* --------------------------------------------------- the Bar Store alone
\* the frames batch_insert_stock_data is called with: one bar per date, of
\* the last two days before the clock ends, with the values of a closed day
\* or of a day still trading
BatchBars == {Columns({RawBar(d, k)}) : d \in (MaxDay - 1)..MaxDay, k \in {"A", "C"}}
Batches ==
    {UNION bs : bs \in {x \in SUBSET BatchBars :
                            x # {} /\ \A a, b \in UNION x : a.date = b.date => a = b}}

\* one call of batch_insert_stock_data(df, symbol)
BatchInsert ==
    /\ pc = "idle"
    /\ calls < MaxWrites
    /\ \E s \in Symbols, df \in Batches, outcome \in WriteOutcomes :
        /\ store' = batch_insert_stock_data(store, df, s, now, outcome)
        /\ lastWrite' = IF outcome = "fail" THEN lastWrite ELSE Committed(s, df, now)
    /\ calls' = calls + 1
    /\ UNCHANGED <<now, bs_initialized, pc>>
    /\ UNCHANGED callVars
    /\ UNCHANGED procVars

StoreNext ==
    \/ Tick
    \/ BatchInsert

StoreSpec == Init /\ [][StoreNext]_vars

\* ------------------------------------------------ the backtest cache alone
\* the state of the acquisition layer
acqVars == <<now, store, bs_initialized, pc, calls, lastWrite, callVars, session,
             utils_bs_initialized, running>>

\* time passes, also while a backtest runs
CacheTick ==
    /\ btime < CacheEpoch + CacheTicks * CacheStep
    /\ btime' = btime + CacheStep
    /\ UNCHANGED <<backtest_cache, last_backtest_update, cache_file, bt, bevent, ncalls,
                   nrestarts, lastCall, overlapped>>
    /\ UNCHANGED <<acqVars, stageVars, simVars, predVars, sigVars, libVars, calVars>>

\* backtest_ai_strategy_cached up to the call of backtest_ai_strategy: the
\* key, the reading of the clock and the test of the cache; a valid entry is
\* returned at once
BacktestCall(t) ==
    /\ bt[t].pc = "idle"
    /\ ncalls < MaxBacktests
    /\ ncalls' = ncalls + 1
    /\ \E r \in RequestsOf(t) :
        LET key == cache_key(r)
            entry == Entry(backtest_cache, last_backtest_update, key)
            fileEntry == IF cache_file.exists
                         THEN Entry(cache_file.cache, cache_file.last_update, key)
                         ELSE NoEntry
        IN  IF CacheValid(backtest_cache, last_backtest_update, key, btime)
            THEN /\ bevent' = [kind |-> "call", req |-> r, at |-> btime, entry |-> entry,
                               prev |-> lastCall, fileEntry |-> fileEntry,
                               computed |-> FALSE, ret |-> backtest_cache[key]]
                 /\ lastCall' = [made |-> TRUE, req |-> r, at |-> btime,
                                 ret |-> backtest_cache[key]]
                 /\ UNCHANGED bt
            ELSE /\ bt' = [bt EXCEPT ![t] = [pc |-> "computing", req |-> r, now |-> btime,
                                             entry |-> entry, prev |-> lastCall,
                                             fileEntry |-> fileEntry]]
                 /\ UNCHANGED <<bevent, lastCall>>
    /\ overlapped' = (overlapped \/ \E u \in Threads \ {t} : bt[u].pc = "computing")
    /\ UNCHANGED <<btime, backtest_cache, last_backtest_update, cache_file, nrestarts>>
    /\ UNCHANGED <<acqVars, stageVars, simVars, predVars, sigVars, libVars, calVars>>

\* backtest_ai_strategy returns, and backtest_ai_strategy_cached stores and
\* saves a result that is not None, and returns it
BacktestFinish(t) ==
    /\ bt[t].pc = "computing"
    /\ \E outcome \in BacktestOutcomes, saved \in SaveOutcomes :
        LET r == bt[t].req
            key == cache_key(r)
            result == IF outcome = "result" THEN [params |-> r, asof |-> bt[t].now]
                      ELSE NoPayload
            upd == UpdateCache(backtest_cache, last_backtest_update, key, result, bt[t].now)
        IN  /\ IF IsResult(result)
               THEN /\ backtest_cache' = upd.cache
                    /\ last_backtest_update' = upd.last_update
                    /\ cache_file' = save_backtest_cache(cache_file, upd.cache,
                                                         upd.last_update, saved)
               ELSE /\ saved = "ok"
                    /\ UNCHANGED <<backtest_cache, last_backtest_update, cache_file>>
            /\ bevent' = [kind |-> "call", req |-> r, at |-> bt[t].now, entry |-> bt[t].entry,
                          prev |-> bt[t].prev, fileEntry |-> bt[t].fileEntry,
                          computed |-> TRUE, ret |-> result]
            /\ lastCall' = [made |-> TRUE, req |-> r, at |-> bt[t].now, ret |-> result]
    /\ bt' = [bt EXCEPT ![t] = IdleThread]
    /\ UNCHANGED <<btime, ncalls, nrestarts, overlapped>>
    /\ UNCHANGED <<acqVars, stageVars, simVars, predVars, sigVars, libVars, calVars>>

\* the process ends and starts again: the module is initialised with empty
\* dictionaries, and startup_event calls init_db and start_scheduled_tasks;
\* load_backtest_cache has no caller
Restart ==
    /\ \A t \in Threads : bt[t].pc = "idle"
    /\ nrestarts < MaxRestarts
    /\ nrestarts' = nrestarts + 1
    /\ backtest_cache' = EmptyCache
    /\ last_backtest_update' = EmptyUpdate
    /\ bevent' = [kind |-> "restart"]
    /\ lastCall' = NoCall
    /\ overlapped' = FALSE
    /\ UNCHANGED <<btime, cache_file, bt, ncalls>>
    /\ UNCHANGED <<acqVars, stageVars, simVars, predVars, sigVars, libVars, calVars>>

CacheNext ==
    \/ CacheTick
    \/ \E t \in Threads : BacktestCall(t)
    \/ \E t \in Threads : BacktestFinish(t)
    \/ Restart

CacheSpec == Init /\ [][CacheNext]_vars

\* -------------------------------------------- prediction storage alone
\* save_predict_result up to the query for a row of the key; an exception
\* (of strptime, of the session, of the query) ends the call
SaveQuery(t) ==
    /\ sp[t].pc = "idle"
    /\ nsaves < MaxSaves
    /\ nsaves' = nsaves + 1
    /\ \E result \in SaveResults, outcome \in DbOutcomes :
        IF outcome = "ok"
        THEN \E existing \in First(predict_results, result.stock_code, result.date) :
                sp' = [sp EXCEPT ![t] = [pc |-> "queried", result |-> result,
                                         existing |-> existing]]
        ELSE UNCHANGED sp
    /\ UNCHANGED <<predict_results, lastSave>>
    /\ UNCHANGED <<acqVars, stageVars, simVars, cacheVars, sigVars, libVars, calVars>>

\* save_predict_result from the test of existing_result on: the row is
\* updated or a new row is added, and the session commits; an exception
\* leaves the table as it is
SaveCommit(t) ==
    /\ sp[t].pc = "queried"
    /\ \E outcome \in DbOutcomes :
        LET result == sp[t].result
        IN  IF outcome = "ok"
            THEN /\ predict_results' =
                        IF sp[t].existing # NoRow
                        THEN UpdateRow(predict_results, sp[t].existing, result)
                        ELSE AddRow(predict_results, result)
                 /\ lastSave' = [lastSave EXCEPT ![<<result.stock_code, result.date>>] =
                                     [made |-> TRUE, signal |-> result.signal]]
            ELSE UNCHANGED <<predict_results, lastSave>>
    /\ sp' = [sp EXCEPT ![t] = IdleSave]
    /\ UNCHANGED nsaves
    /\ UNCHANGED <<acqVars, stageVars, simVars, cacheVars, sigVars, libVars, calVars>>

PredNext ==
    \/ \E t \in Threads : SaveQuery(t)
    \/ \E t \in Threads : SaveCommit(t)

PredSpec == Init /\ [][PredNext]_vars

\* ------------------------------------------------- predict_signal alone
\* one call of predict_signal(symbol, name, train_window);
\* save_predict_result(result) is the statement before return result
PredictSignal ==
    /\ ~ps.called
    /\ \E df \in DfOutcomes, cal \in Calendars, train_window \in TrainWindows,
          samples \in StageOutcomes, fit \in StageOutcomes, feat_pred \in StageOutcomes,
          senti \in StageOutcomes, saved \in DbOutcomes :
        LET returned == predict_signal(df, cal, train_window, samples, fit, feat_pred, senti)
        IN  /\ ps' = [called |-> TRUE, df |-> df, cal |-> cal, train_window |-> train_window,
                      samples |-> samples, fit |-> fit, feat_pred |-> feat_pred,
                      senti |-> senti, saved |-> saved, returned |-> returned]
            /\ predict_results' =
                  IF returned.kind = "result"
                  THEN save_predict_result(predict_results,
                           [stock_code |-> "600000", date |-> returned.date,
                            signal |-> "buy"], saved)
                  ELSE predict_results
    /\ UNCHANGED <<sp, nsaves, lastSave>>
    /\ UNCHANGED <<acqVars, stageVars, simVars, cacheVars, libVars, calVars>>

SigNext == PredictSignal

\* ------------------------------------------- the classification alone
\* lines 239-247 of predict_signal, with the values the lines before them
\* have computed
Classify ==
    /\ ~sg.called
    /\ \E prob \in Probs, rsi \in Rsis, price_above_bb \in BOOLEAN, mom_weakening \in BOOLEAN,
          drawdown_5d \in Drawdowns, label \in SentimentLabels :
        sg' = [called |-> TRUE, prob |-> prob, rsi |-> rsi, price_above_bb |-> price_above_bb,
               mom_weakening |-> mom_weakening, drawdown_5d |-> drawdown_5d,
               sentiment_label |-> label,
               signal |-> Signal(prob, rsi, price_above_bb, mom_weakening, drawdown_5d)]
    /\ UNCHANGED <<cq, fv>>
    /\ UNCHANGED <<acqVars, stageVars, simVars, cacheVars, predVars, sigVars, calVars>>

ClassNext == Classify

ClassSpec == Init /\ [][ClassNext]_vars

\* ------------------------------------------- the calendar queries alone
NextTradingDay ==
    /\ cq.fn = "none"
    /\ \E d \in QueryDates, count \in QueryCounts, cal \in QueryCalendars :
        cq' = [fn |-> "next", d |-> d, count |-> count, cal |-> cal,
               returned |-> get_next_trading_day(d, count, cal)]
    /\ UNCHANGED <<sg, fv>>
    /\ UNCHANGED <<acqVars, stageVars, simVars, cacheVars, predVars, sigVars, calVars>>

PreviousTradingDay ==
    /\ cq.fn = "none"
    /\ \E d \in QueryDates, count \in QueryCounts, cal \in QueryCalendars :
        cq' = [fn |-> "previous", d |-> d, count |-> count, cal |-> cal,
               returned |-> get_previous_trading_day(d, count, cal)]
    /\ UNCHANGED <<sg, fv>>
    /\ UNCHANGED <<acqVars, stageVars, simVars, cacheVars, predVars, sigVars, calVars>>

\* get_previous_trading_day(get_next_trading_day(d)), the second call made
\* when the first has returned a date
RoundTrip ==
    /\ cq.fn = "none"
    /\ \E d \in QueryDates, cal \in QueryCalendars :
        LET next == get_next_trading_day(d, 1, cal)
        IN  cq' = [fn |-> "roundtrip", d |-> d, cal |-> cal, next |-> next,
                   returned |-> IF next.kind = "date"
                                THEN get_previous_trading_day(next.date, 1, cal)
                                ELSE next]
    /\ UNCHANGED <<sg, fv>>
    /\ UNCHANGED <<acqVars, stageVars, simVars, cacheVars, predVars, sigVars, calVars>>

TradingHours ==
    /\ cq.fn = "none"
    /\ \E t \in QueryTimes, cal \in QueryCalendars :
        cq' = [fn |-> "hours", t |-> t, cal |-> cal, returned |-> is_trading_hours(t, cal)]
    /\ UNCHANGED <<sg, fv>>
    /\ UNCHANGED <<acqVars, stageVars, simVars, cacheVars, predVars, sigVars, calVars>>

CurrentTradingDay ==
    /\ cq.fn = "none"
    /\ \E t \in QueryTimes, cal \in QueryCalendars :
        cq' = [fn |-> "current", t |-> t, cal |-> cal,
               returned |-> get_current_trading_day(t, cal)]
    /\ UNCHANGED <<sg, fv>>
    /\ UNCHANGED <<acqVars, stageVars, simVars, cacheVars, predVars, sigVars, calVars>>

QueryNext ==
    \/ NextTradingDay
    \/ PreviousTradingDay
    \/ RoundTrip
    \/ TradingHours
    \/ CurrentTradingDay

QuerySpec == Init /\ [][QueryNext]_vars

\* ------------------------------------------- calc_features_safe alone
CalcFeatures ==
    /\ ~fv.called
    /\ \E n \in WindowLens, ks \in RunLens, b1 \in RunBars, b2 \in RunBars, b3 \in RunBars :
        LET w == Window(n, ks, b1, b2, b3)
        IN  fv' = [called |-> TRUE, len |-> n, ks |-> ks, bars |-> <<b1, b2, b3>>,
                   returned |-> calc_features_safe(w)]
    /\ UNCHANGED <<sg, cq>>
    /\ UNCHANGED <<acqVars, stageVars, simVars, cacheVars, predVars, sigVars, calVars>>

FeatNext == CalcFeatures

FeatSpec == Init /\ [][FeatNext]_vars

\* ------------------------------------------- get_trade_calendar alone
CalTick ==
    /\ ctime < CalEpoch + CalTicks * CalStep
    /\ ctime' = ctime + CalStep
    /\ UNCHANGED <<trade_calendar_cache, last_trade_calendar_update, calendar_file, cevent>>
    /\ UNCHANGED <<acqVars, stageVars, simVars, cacheVars, predVars, sigVars, libVars>>

\* get_trade_calendar(): the cache while it is fresh; else the source is
\* asked, the calendar is rebuilt from its answer or, on its failure, from
\* the weekdays, and cached with the time and saved to the file.  Lines
\* 139-145 run only when the statements of lines 119-136 raise, which they
\* have no cause to.
GetTradeCalendar ==
    /\ \E answer \in SourceOutcomes, saved \in CalSaveOutcomes :
        LET fresh == CalendarFresh(trade_calendar_cache, last_trade_calendar_update, ctime)
            cache == IF fresh THEN trade_calendar_cache ELSE Rebuilt(answer)
            last == IF fresh THEN last_trade_calendar_update ELSE ctime
        IN  /\ trade_calendar_cache' = cache
            /\ last_trade_calendar_update' = last
            /\ calendar_file' =
                  IF fresh THEN calendar_file
                  ELSE save_trade_calendar_cache(calendar_file, cache, last, saved)
            /\ cevent' = [kind |-> "call", at |-> ctime, contacted |-> ~fresh,
                          source |-> IF fresh THEN "none" ELSE answer,
                          before |-> trade_calendar_cache,
                          fileBefore |-> calendar_file,
                          rebuiltBefore |-> cevent.rebuilt,
                          returned |-> cache,
                          rebuilt |-> IF fresh THEN cevent.rebuilt ELSE ctime]
    /\ UNCHANGED ctime
    /\ UNCHANGED <<acqVars, stageVars, simVars, cacheVars, predVars, sigVars, libVars>>

\* the process is restarted: the module is imported anew, with an empty
\* cache; startup_event does not call load_trade_calendar_cache
CalRestart ==
    /\ cevent.kind = "call"
    /\ trade_calendar_cache' = NoCalendar
    /\ last_trade_calendar_update' = NoUpdate
    /\ cevent' = [kind |-> "restart", rebuilt |-> cevent.rebuilt]
    /\ UNCHANGED <<ctime, calendar_file>>
    /\ UNCHANGED <<acqVars, stageVars, simVars, cacheVars, predVars, sigVars, libVars>>

CalNext ==
    \/ CalTick
    \/ GetTradeCalendar
    \/ CalRestart

CalSpec == Init /\ [][CalNext]_vars

SigSpec == Init /\ [][SigNext]_vars

\* ------------------------------------------------ the scan backtest of utils
\* utils.backtest_ai_strategy_cached(board_filter, top_k, min_prob,
\* lookback_days), one date t0 of its loop.  Probabilities are in percent,
\* returns in thousandths.
ScanSymbols == {"600000", "000001", "300750"}
\* prob = 0.52
StubProb == 52
\* what the walk-forward trainer and predictor of backtest_ai_strategy would
\* give for a symbol on the date
PredictedProbs == {45, 70}
\* (price[t1] - price[t0]) / price[t0]
ScanReturns == {-20, 0, 30}
\* min_prob, 55.0 by default, and top_k
MinProbs == {50, 52, 55, 60}
TopKs == {1, 2}

\* the probability of a symbol on the date
scan_prob(symbol, predicted) == StubProb

\* signals: (prob, ret) of the symbols that pass the tests of lines 1011-1020
\* and have prob >= min_prob / 100.0
ScanSignals(considered, predicted, rets, min_prob) ==
    {[sym |-> y, prob |-> scan_prob(y, predicted), ret |-> rets[y]] :
        y \in {x \in considered : scan_prob(x, predicted) >= min_prob}}

\* the order of signals.sort(reverse=True) on the tuples (prob, ret)
SortsBefore(a, b) == a.prob > b.prob \/ (a.prob = b.prob /\ a.ret > b.ret)

\* signals[:top_k] after the sort: the selections that differ only in
\* tuples that are equal
ScanSelected(signals, top_k) ==
    {S \in SUBSET signals :
        /\ Cardinality(S) = IF Cardinality(signals) < top_k THEN Cardinality(signals) ELSE top_k
        /\ \A a \in S, b \in signals \ S : ~SortsBefore(b, a)}

\* one date of the loop of lines 1005-1032
ScanDay ==
    /\ ~sc.called
    /\ \E considered \in SUBSET ScanSymbols, predicted \in [ScanSymbols -> PredictedProbs],
          rets \in [ScanSymbols -> ScanReturns], min_prob \in MinProbs, top_k \in TopKs :
        LET signals == ScanSignals(considered, predicted, rets, min_prob)
        IN \E selected \in ScanSelected(signals, top_k) :
            sc' = [called |-> TRUE, considered |-> considered, predicted |-> predicted,
                   ret |-> rets, min_prob |-> min_prob, top_k |-> top_k,
                   signals |-> signals, selected |-> selected]
    /\ UNCHANGED <<bk, sim>>
    /\ UNCHANGED <<acqVars, stageVars, cacheVars, predVars, sigVars, libVars, calVars>>

ScanNext == ScanDay

ScanSpec == Init /\ [][ScanNext]_vars

\* ------------------------------- batch_insert_stock_data, step by step
\* The SQLite branch of batch_insert_stock_data as its three statements,
\* with one thread per symbol.  The statements do not fail by themselves here
\* (StoreSpec explores that): a call returns False only when its INSERT finds
\* no staging table.
stageRest == <<now, bs_initialized, pc, lastWrite, callVars, session, utils_bs_initialized,
               running, cacheVars, predVars, sigVars, libVars, calVars, simVars>>

\* INSERT OR REPLACE INTO stock_daily (...) SELECT ... FROM temp_stock_daily
InsertOrReplaceFrom(st, temp) ==
    {r \in st : ~\E x \in temp : x.symbol = r.symbol /\ x.date = r.date} \cup temp

\* df[[...]].to_sql('temp_stock_daily', if_exists='replace'): the table is
\* dropped if it exists and created with the rows of the batch
StageBatch(t) ==
    /\ ins[t].pc \in {"idle", "done"}
    /\ calls < MaxWrites
    /\ calls' = calls + 1
    /\ \E df \in Batches :
        /\ ins' = [ins EXCEPT ![t] = [pc |-> "staged", symbol |-> t, df |-> df]]
        /\ temp_stock_daily' = [exists |-> TRUE,
                                rows |-> {StockDaily(t, b, now) : b \in df}]
    /\ UNCHANGED store
    /\ UNCHANGED stageRest

\* conn.execute(insert_query); conn.commit(): the rows the staging table
\* holds now go to stock_daily; without the table the statement raises and
\* the call returns False
CopyStaged(t) ==
    /\ ins[t].pc = "staged"
    /\ IF temp_stock_daily.exists
       THEN /\ store' = InsertOrReplaceFrom(store, temp_stock_daily.rows)
            /\ ins' = [ins EXCEPT ![t].pc = "copied"]
       ELSE /\ ins' = [ins EXCEPT ![t] = [pc |-> "done", symbol |-> t, df |-> ins[t].df,
                                          returned |-> FALSE]]
            /\ UNCHANGED store
    /\ UNCHANGED <<temp_stock_daily, calls>>
    /\ UNCHANGED stageRest

\* DROP TABLE IF EXISTS temp_stock_daily; return True
DropStaged(t) ==
    /\ ins[t].pc = "copied"
    /\ temp_stock_daily' = NoTable
    /\ ins' = [ins EXCEPT ![t] = [pc |-> "done", symbol |-> t, df |-> ins[t].df,
                                  returned |-> TRUE]]
    /\ UNCHANGED <<store, calls>>
    /\ UNCHANGED stageRest

StageNext ==
    \/ \E t \in Writers : StageBatch(t)
    \/ \E t \in Writers : CopyStaged(t)
    \/ \E t \in Writers : DropStaged(t)

StageSpec == Init /\ [][StageNext]_vars

\* ------------------------------ backtest_ai_strategy, the trade simulation
\* Lines 172-215 for one simulated bar after another, and the win rate of
\* lines 242-247.  A price is in tenths of a yuan, money in hundredths, a
\* probability in percent, transaction_cost in thousandths: the amount
\* shares * close is shares * close * 10 hundredths.  The shares are counted
\* in lots of 100 where an amount is computed, which keeps the products small.
\* simulated bars of a run
MaxSimBars == 4
\* prob > 0.6, prob < 0.4
BuyAbove == 60
SellBelow == 40
\* row['close'] and prob of a simulated bar
SimCloses == {50, 100}
SimProbs == {30, SellBelow, BuyAbove, 70}
\* initial_capital (500, 1500 and 10000 yuan) and transaction_cost (0.001 by
\* default)
InitialCapitals == {50000, 150000, 1000000}
TransactionCosts == {0, 1}

\* signal: 1 buy, -1 sell, 0 hold
TradeSignal(prob) == IF prob > BuyAbove THEN 1 ELSE IF prob < SellBelow THEN -1 ELSE 0

\* shares_to_buy = capital // (row['close'] * 100) * 100
SharesToBuy(capital, close) == (capital \div (close * 1000)) * 100

\* the buy is charged without the transaction cost
BuyCost_no_fee(shares, close, transaction_cost) == (shares \div 100) * close * 1000

\* cost = shares_to_buy * row['close'] * (1 + transaction_cost)
BuyCost(shares, close, transaction_cost) ==
    (shares \div 100) * close * (1000 + transaction_cost)

\* proceeds = shares * row['close'] * (1 - transaction_cost)
Proceeds(shares, close, transaction_cost) ==
    (shares \div 100) * close * (1000 - transaction_cost)

\* win_rate = len(winning_trades) / len(trades) * 100, or 0 without trades
WinRate(trades, initial_capital) ==
    LET winning_trades == {i \in DOMAIN trades : /\ trades[i].action = "sell"
                                                  /\ trades[i].total_value > initial_capital}
    IN IF trades = <<>> THEN [num |-> 0, den |-> 1]
       ELSE [num |-> 100 * Cardinality(winning_trades), den |-> Len(trades)]

\* lines 172-215 for the bar (close, prob): capital, shares, trades and the
\* daily value after it
TradeBar(s, close, prob) ==
    LET signal == TradeSignal(prob)
        shares_to_buy == SharesToBuy(s.capital, close)
        cost == BuyCost(shares_to_buy, close, s.transaction_cost)
        proceeds == Proceeds(s.shares, close, s.transaction_cost)
        after ==
            IF signal = 1 /\ s.shares = 0
            THEN IF cost <= s.capital
                 THEN [capital |-> s.capital - cost, shares |-> shares_to_buy,
                       trades |-> Append(s.trades,
                           [action |-> "buy", price |-> close, shares |-> shares_to_buy,
                            capital |-> s.capital - cost,
                            total_value |-> s.capital - cost + (shares_to_buy \div 100) * close * 1000])]
                 ELSE [capital |-> s.capital, shares |-> s.shares, trades |-> s.trades]
            ELSE IF signal = -1 /\ s.shares > 0
            THEN [capital |-> s.capital + proceeds, shares |-> 0,
                  trades |-> Append(s.trades,
                      [action |-> "sell", price |-> close, shares |-> s.shares,
                       capital |-> s.capital + proceeds,
                       total_value |-> s.capital + proceeds])]
            ELSE [capital |-> s.capital, shares |-> s.shares, trades |-> s.trades]
    IN [pc |-> "run", initial_capital |-> s.initial_capital,
        transaction_cost |-> s.transaction_cost,
        bar |-> s.bar + 1, close |-> close, prob |-> prob,
        capital |-> after.capital, shares |-> after.shares, trades |-> after.trades,
        daily_value |-> after.capital + (IF after.shares > 0 THEN (after.shares \div 100) * close * 1000 ELSE 0)]

simRest == <<acqVars, stageVars, cacheVars, predVars, sigVars, libVars, calVars>>

\* lines 105-109: capital = initial_capital, shares = 0, trades = []
SimStart ==
    /\ sim.pc = "none"
    /\ \E initial_capital \in InitialCapitals, transaction_cost \in TransactionCosts :
        sim' = [pc |-> "run", initial_capital |-> initial_capital,
                transaction_cost |-> transaction_cost,
                bar |-> 0, close |-> 0, prob |-> 0,
                capital |-> initial_capital, shares |-> 0, trades |-> <<>>,
                daily_value |-> initial_capital]
    /\ UNCHANGED <<bk, sc>>
    /\ UNCHANGED simRest

\* one bar of a test block
SimBar ==
    /\ sim.pc = "run"
    /\ sim.bar < MaxSimBars
    /\ \E close \in SimCloses, prob \in SimProbs : sim' = TradeBar(sim, close, prob)
    /\ UNCHANGED <<bk, sc>>
    /\ UNCHANGED simRest

\* the loops are over and there is a daily value: the win rate of the result
SimEnd ==
    /\ sim.pc = "run"
    /\ sim.bar > 0
    /\ sim' = [pc |-> "done", initial_capital |-> sim.initial_capital,
               trades |-> sim.trades,
               win_rate_pct |-> WinRate(sim.trades, sim.initial_capital)]
    /\ UNCHANGED <<bk, sc>>
    /\ UNCHANGED simRest

TradeNext ==
    \/ SimStart
    \/ SimBar
    \/ SimEnd

TradeSpec == Init /\ [][TradeNext]_vars

\* ---------------------------- backtest_ai_strategy, the walk-forward loop
\* Lines 99-170 and 209-219 by the positions of the bars in df, the series
\* after the date filter, which is in date order; position 0 is its first
\* bar.  A slice is the record of its first and last position.
\* the longest series
MaxWalkLen == 225
\* len(df) < 200
MinBacktestRows == 200
\* train_window = 100, test_window = 10
WalkTrainWindow == 100
TestWindow == 10
\* for j in range(60, len(train_data))
FirstSample == 60
\* len(X_train) < 50
MinTrainSamples == 50

\* len(df) after the filter of line 99
WalkLens == {MinBacktestRows - 1} \cup (MinBacktestRows..MaxWalkLen)

\* df.iloc[:k]
Iloc(k) == [first |-> 0, last |-> k - 1]
SliceLen(sl) == sl.last - sl.first + 1

\* test_data = df.iloc[test_start:test_end + 1]
test_data(i, n) ==
    [first |-> i,
     last |-> IF i + TestWindow - 1 < n - 1 THEN i + TestWindow - 1 ELSE n - 1]

\* The samples of lines 132-139 for train_data = df.iloc[:i]: one per j in
\* range(60, i) whose window train_data.iloc[:j] has features; its label
\* compares the closes of the bars j and j - 1.  The record holds their
\* number and the latest bar that a window and that a label reads.
TrainSamples(i) ==
    LET train_data == Iloc(i)
        js == {j \in FirstSample..(SliceLen(train_data) - 1) : ~NoFeatures(Iloc(j))}
    IN IF js = {} THEN [count |-> 0, feat_last |-> -1, label_last |-> -1]
       ELSE [count |-> Cardinality(js),
             feat_last |-> Iloc(SetMax(js)).last,
             label_last |-> SetMax(js)]

\* the window of a test bar reaches the bar itself
decision_window_inclusive(test_start, idx) == Iloc(test_start + idx + 1)

\* window_data = df.iloc[:test_start + idx]
decision_window(test_start, idx) == Iloc(test_start + idx)

\* The daily values lines 162-215 append for a block: one per bar of
\* test_data whose window has features, in the order of the bars, each with
\* the block, what the model of the block was trained on and the window of
\* the decision.
RECURSIVE BlockValues(_, _, _, _)
BlockValues(i, test, idx, trained) ==
    IF test.first + idx > test.last THEN <<>>
    ELSE LET window_data == decision_window(test.first, idx)
             rest == BlockValues(i, test, idx + 1, trained)
         IN IF NoFeatures(window_data) THEN rest
            ELSE <<[pos |-> test.first + idx, block |-> i,
                    train_feat_last |-> trained.feat_last,
                    train_label_last |-> trained.label_last,
                    feat_last |-> window_data.last]>> \o rest

walkRest == <<acqVars, stageVars, cacheVars, predVars, sigVars, libVars, calVars>>

\* lines 99-112: the filter and the test of the length
WalkStart ==
    /\ bk.pc = "none"
    /\ \E n \in WalkLens :
        bk' = IF n < MinBacktestRows
              THEN [pc |-> "done", n |-> n, result |-> "none", daily_values |-> <<>>]
              ELSE [pc |-> "loop", n |-> n, i |-> WalkTrainWindow, daily_values |-> <<>>]
    /\ UNCHANGED <<sim, sc>>
    /\ UNCHANGED walkRest

\* one iteration of `for i in range(train_window, len(df), test_window)`; an
\* exception of model.fit or predict_proba ends the function with None
WalkBlock ==
    /\ bk.pc = "loop"
    /\ bk.i < bk.n
    /\ \E fit \in StageOutcomes :
        LET i == bk.i
            train_data == Iloc(i)
            test == test_data(i, bk.n)
            trained == TrainSamples(i)
            skipped == \/ SliceLen(train_data) < WalkTrainWindow \/ SliceLen(test) < 1
                       \/ trained.count < MinTrainSamples
        IN IF skipped
           THEN /\ fit = "ok"
                /\ bk' = [bk EXCEPT !.i = i + TestWindow]
           ELSE IF fit = "exception"
           THEN bk' = [pc |-> "done", n |-> bk.n, result |-> "none",
                       daily_values |-> bk.daily_values]
           ELSE bk' = [bk EXCEPT !.i = i + TestWindow,
                                 !.daily_values = bk.daily_values
                                                     \o BlockValues(i, test, 0, trained)]
    /\ UNCHANGED <<sim, sc>>
    /\ UNCHANGED walkRest

\* lines 217-271: None without a daily value, else the result
WalkEnd ==
    /\ bk.pc = "loop"
    /\ bk.i >= bk.n
    /\ bk' = [pc |-> "done", n |-> bk.n,
              result |-> IF bk.daily_values = <<>> THEN "none" ELSE "result",
              daily_values |-> bk.daily_values]
    /\ UNCHANGED <<sim, sc>>
    /\ UNCHANGED walkRest

WalkNext ==
    \/ WalkStart
    \/ WalkBlock
    \/ WalkEnd

WalkSpec == Init /\ [][WalkNext]_vars

\* ================================================================ claims
\* C1: the table holds at most one row per (symbol, date), and that row is
\* the row of the latest committed write of the key: its values and its
\* update_time.
C1_OneRowPerKeyLatestWins ==
    /\ \A r1, r2 \in store : (r1.symbol = r2.symbol /\ r1.date = r2.date) => r1 = r2
    /\ \A k \in DOMAIN lastWrite :
          {r \in store : r.symbol = k[1] /\ r.date = k[2]} = lastWrite[k].rows

\* C1 witness: a key whose values a later write has changed, at a later
\* time, while the other symbol has no rows.
C1_Witness ==
    \E k1, k2 \in DOMAIN lastWrite :
        /\ k1[1] # k2[1]
        /\ lastWrite[k1].replaced
        /\ lastWrite[k1].rows # {} /\ lastWrite[k1].rows \subseteq store
        /\ \A r \in lastWrite[k1].rows : r.update_time > FirstDay * SecondsPerDay + HMS(10, 0, 0)
        /\ lastWrite[k2].rows = {}

RowsOf(s) == {r \in store : r.symbol = s}
LatestDate(s) == SetMax({r.date : r \in RowsOf(s)})
LatestRows(s) == {r \in RowsOf(s) : r.date = LatestDate(s)}

\* the reference timestamps a completeness check is asked about: the epoch,
\* and 15:00:00 of the days around the clock
AsOfDates ==
    {0} \cup {d * SecondsPerDay + CloseHour * SecondsPerHour : d \in (FirstDay - 1)..MaxDay}

\* C2: check_data_completeness returns false whenever the symbol has no rows
\* or its latest stored date is not the current trading day, whatever the
\* update timestamps and the reference timestamp are.
C2_StaleDateNeverComplete ==
    \A s \in Symbols, a \in AsOfDates :
        (RowsOf(s) = {} \/ LatestDate(s) # get_current_trading_day(now, CachedCalendar).date)
            => ~check_data_completeness(store, s, a, now)

\* C2 witness: the latest stored date is not the current trading day, every
\* row was written after the reference close, and the check says false.
C2_Witness ==
    \E s \in Symbols :
        /\ RowsOf(s) # {}
        /\ LatestDate(s) # get_current_trading_day(now, CachedCalendar).date
        /\ \A r \in RowsOf(s) : r.update_time > AsOf(now)
        /\ ~check_data_completeness(store, s, AsOf(now), now)

C4_SourceOrder ==
    /\ nPrimary > 0 => (~is_complete \/ db_empty)
    /\ pc \in {"primary", "secondary"} => (~is_complete \/ db_empty)
    /\ nSecondary > 0 => nPrimary = 3
    /\ pc = "secondary" => nPrimary = 3
    /\ respValid >= MinRows =>
          /\ pc = "done"
          /\ source = IF nSecondary > 0 THEN "secondary" ELSE "primary"
          /\ NumBars(ret) = respValid
    /\ source = "primary" => nSecondary = 0

\* C4 witness: a call that the secondary provider answered after three
\* failed primary attempts.
C4_Witness ==
    pc = "done" /\ source = "secondary" /\ nPrimary = 3 /\ nSecondary > 0 /\ ret # {}

\* what is left of the two loops
Remaining ==
    CASE pc = "primary" -> 6 - attempt
      [] pc = "secondary" -> 3 - attempt
      [] OTHER -> 0

C5_Bounded ==
    /\ pc \in {"idle", "primary", "secondary", "done"}
    /\ nPrimary <= 3 /\ nSecondary <= 3
    /\ Remaining >= 0
    /\ (pc = "done" /\ source \notin {"store", "patch", "primary", "secondary"})
          => (source = "empty" /\ ret = {})
    /\ source = "empty" =>
          /\ pc = "done" /\ nPrimary = 3 /\ attempt = 3
          /\ respValid < MinRows
          /\ ~is_complete \/ db_empty

\* C5: a call that the store does not answer makes at most three primary and
\* at most three secondary queries, each iteration brings it nearer to its
\* end, and when all of them fail it returns an empty series; it never
\* raises.
C5_TerminatesEmpty ==
    /\ []C5_Bounded
    /\ [][(pc \in {"primary", "secondary"}) => (Remaining > Remaining')]_vars

\* C5 witness: a call that returned the empty series after three primary and
\* three secondary queries.
C5_Witness ==
    pc = "done" /\ source = "empty" /\ nPrimary = 3 /\ nSecondary = 3 /\ ret = {}

\* C6: a non-empty series returned from the primary or the secondary
\* provider is in the store when it is returned.
C6_ReturnedBarsStored ==
    (pc = "done" /\ source \in {"primary", "secondary"} /\ ret # {})
        => \A b \in ret : \E r \in store : r.symbol = sym /\ Bar(r) = b

\* 0.1 < close < 1000 and volume >= 0
ValidBar(b) == 1 < b.close /\ b.close < 10000 /\ b.volume >= 0

\* C7: every stored bar and every returned bar has 0.1 < close < 1000 and a
\* volume of at least 0.
C7_AllBarsValid ==
    /\ \A r \in store : ValidBar(r)
    /\ \A b \in ret : ValidBar(b)

\* C7 witness: a call that returned the history of the primary provider, of
\* which one bar was not valid.
C7_Witness ==
    pc = "done" /\ source = "primary" /\ ret # {} /\ respValid < respLen /\ store # {}

\* C8: an attempt whose response has fewer than 100 valid bars leaves the
\* store as it was and returns no data.
C8_ShortResponseDiscarded ==
    [][(nPrimary' + nSecondary' > nPrimary + nSecondary /\ respValid' < MinRows)
          => (store' = store /\ ret' = {})]_vars

\* C8 witness: a response of 100 bars of which 99 are valid has failed, with
\* bars in the store.
C8_Witness ==
    /\ pc \in {"primary", "secondary"} /\ nPrimary > 0
    /\ respLen = MinRows /\ respValid = MinRows - 1
    /\ store # {}

Fresh(rows) ==
    {[date |-> b.date, days |-> b.days, open |-> b.open, high |-> b.high, low |-> b.low,
      close |-> b.close, volume |-> b.volume * 100] : b \in ValidBars(rows, 100)}

C11_FreshLoginAfterFailure ==
    /\ lastQuery.result \in {"error", "exception"} => ~bs_initialized
    /\ lastQuery.result # "none" => lastQuery.on = "fresh"
    /\ lastQuery.on # "failed"

\* C11 witness: a query answered on a fresh session after an earlier query
\* of the call had failed.
C11_Witness ==
    /\ lastQuery.failedBefore
    /\ lastQuery.result = "rows" /\ lastQuery.on = "fresh"
    /\ session = "open" /\ bs_initialized

\* C12: after the shutdown handler has run, no session of the secondary
\* provider is logged in.
C12_NoSessionAfterShutdown ==
    ~running => session = "none"

\* the key of the latest completed call
EventKey == cache_key(bevent.req)

\* the latest completed call found an entry for its key, of an age below
\* the TTL / of the TTL or more
FoundFresh ==
    bevent.kind = "call" /\ bevent.entry # NoEntry /\ bevent.at - bevent.entry.ts < TTL
FoundExpired ==
    bevent.kind = "call" /\ bevent.entry # NoEntry /\ bevent.at - bevent.entry.ts >= TTL

\* C13 (as stated): a call that comes less than 24 hours after the call
\* before it, which had identical parameters and returned a payload, returns
\* that payload and runs no backtest (calls of one process, none of them
\* overlapping another).
C13_SecondCallWithinTTLServed ==
    (/\ bevent.kind = "call"
     /\ bevent.prev.made
     /\ bevent.prev.req = bevent.req
     /\ bevent.prev.ret # NoPayload
     /\ ~overlapped
     /\ bevent.at - bevent.prev.at < TTL)
    => (bevent.ret = bevent.prev.ret /\ ~bevent.computed)

\* C13 (amended): a call that finds an entry for its key whose timestamp is
\* less than 24 hours before the time the call reads returns the payload of
\* that entry and runs no backtest.
C13_FreshEntryServed ==
    FoundFresh => (~bevent.computed /\ bevent.ret = bevent.entry.payload)

\* C13 witness: a call answered from an entry stored at an earlier time by an
\* earlier call with identical parameters.
C13_Witness ==
    /\ FoundFresh
    /\ bevent.at > bevent.entry.ts
    /\ bevent.prev.made
    /\ bevent.prev.req = bevent.req
    /\ ~bevent.computed
    /\ bevent.ret = bevent.entry.payload

\* C14 (as stated): a call that finds an entry of 24 hours or more runs a
\* backtest, and the payload and the timestamp of the entry are replaced by
\* the result of that run.
C14_ExpiredEntryReplaced ==
    FoundExpired =>
        /\ bevent.computed
        /\ bevent.ret # bevent.entry.payload
        /\ backtest_cache[EventKey] = bevent.ret
        /\ last_backtest_update[EventKey] = bevent.at

\* C14 (amended): a call that finds an entry of 24 hours or more runs a
\* backtest and does not return the payload of that entry; when the run
\* yields a result, the call writes it as the payload of the entry, with the
\* time the call read as its timestamp; when the run yields none, the call
\* returns none. No call returns the payload of an entry of 24 hours or more.
C14_ExpiredEntryRecomputed ==
    /\ FoundExpired =>
        /\ bevent.computed
        /\ bevent.ret # bevent.entry.payload
        /\ bevent.ret # NoPayload =>
            /\ backtest_cache[EventKey] = bevent.ret
            /\ last_backtest_update[EventKey] = bevent.at
    /\ (bevent.kind = "call" /\ ~bevent.computed) => FoundFresh

\* C14 witness: a call found an expired entry and its run replaced it.
C14_Witness ==
    /\ FoundExpired
    /\ bevent.computed
    /\ bevent.ret # NoPayload
    /\ backtest_cache[EventKey] = bevent.ret
    /\ last_backtest_update[EventKey] = bevent.at
    /\ bevent.at >= bevent.entry.ts + TTL

\* C15: at most one backtest per fingerprint is in flight.
C15_OneComputationInFlight ==
    \A t, u \in Threads :
        (t # u /\ bt[t].pc = "computing" /\ bt[u].pc = "computing")
        => cache_key(bt[t].req) # cache_key(bt[u].req)

\* C16: after a restart the cache holds the persisted entries and their
\* timestamps, and the first call of the new process whose parameters are
\* those of a persisted entry younger than the TTL is answered with that
\* entry's payload, without a run.
C16_EntrySurvivesRestart ==
    /\ (bevent.kind = "restart" /\ cache_file.exists)
       => (backtest_cache = cache_file.cache /\ last_backtest_update = cache_file.last_update)
    /\ (/\ bevent.kind = "call"
        /\ ~bevent.prev.made
        /\ ~overlapped
        /\ bevent.fileEntry # NoEntry
        /\ bevent.fileEntry.payload.params = bevent.req
        /\ bevent.at - bevent.fileEntry.ts < TTL)
       => (~bevent.computed /\ bevent.ret = bevent.fileEntry.payload)

\* C17: a payload a call returns was computed from the parameters of that
\* call.
C17_PayloadOfOwnParameters ==
    (bevent.kind = "call" /\ bevent.ret # NoPayload) => bevent.ret.params = bevent.req

\* C18: prediction storage holds at most one row per (stock_code,
\* predict_date), and that row carries the fields of the latest committed
\* write of the key.
C18_OneRowPerPrediction ==
    \A k \in DOMAIN lastSave :
        LET rs == RowsOfKey(predict_results, k[1], k[2])
        IN  /\ Cardinality(rs) <= 1
            /\ lastSave[k].made => {r.signal : r \in rs} = {lastSave[k].signal}
            /\ ~lastSave[k].made => rs = {}

\* the earliest trading day of the calendar strictly after a date, as a set:
\* empty when there is none
EarliestAfter(d, dates) == {x \in dates : x > d /\ \A y \in dates : y > d => x <= y}

\* C19: the date of a result predict_signal returns is the earliest trading
\* day of the calendar strictly after the date of the last bar, and without
\* such a day predict_signal returns none.
C19_NextTradingDay ==
    ps.called =>
        /\ ps.returned.kind = "result"
            => (ps.cal.present /\ {ps.returned.date} = EarliestAfter(ps.df.last, ps.cal.trade_dates))
        /\ (~ps.cal.present \/ EarliestAfter(ps.df.last, ps.cal.trade_dates) = {})
            => ps.returned = ReturnsNone

\* C19 witness: a result whose date skips the days that are no trading days.
C19_Witness ==
    /\ ps.called
    /\ ps.returned.kind = "result"
    /\ ps.returned.date > ps.df.last + 1
    /\ ps.df.last \in ps.cal.trade_dates

\* C20: predict_signal raises nothing: whatever its stages do, it returns a
\* result or none.
C20_NeverRaises ==
    ps.called => ps.returned.kind \in {"result", "none"}

\* C20 witness: a stage raised after the data and the date were in hand, and
\* predict_signal returned none.
C20_Witness ==
    /\ ps.called
    /\ ps.df.kind = "series" /\ ps.df.len > ps.train_window
    /\ get_next_trading_day(ps.df.last, 1, ps.cal).kind = "date"
    /\ ps.samples = "ok" /\ EnoughSamples(X_train(ps.df.len, ps.train_window))
    /\ ps.senti = "exception"
    /\ ps.fit = "ok" /\ ps.feat_pred = "ok"
    /\ ps.returned = ReturnsNone

\* the days of which a training sample can be built: the train_window bars
\* before the latest bar that have at least 60 bars up to and including
\* themselves
Buildable(n, train_window) ==
    {d \in 0..(n - 2) : d >= n - 1 - train_window /\ d + 1 >= MinFeatureRows}

\* the call has a series of fewer than train_window + 1 bars, or of fewer
\* than 50 buildable samples
TooLittleData ==
    /\ ps.df.kind = "series"
    /\ \/ ps.df.len < ps.train_window + 1
       \/ Cardinality(Buildable(ps.df.len, ps.train_window)) < MinSamples

\* C21: with fewer than train_window + 1 bars, or with fewer than 50 training
\* samples to build, predict_signal returns none and prediction storage stays
\* as it was; a result comes only with at least 50 samples.
C21_AbstainsOnLittleData ==
    ps.called =>
        /\ TooLittleData => (ps.returned = ReturnsNone /\ predict_results = {})
        /\ ps.returned.kind = "result" =>
              /\ ps.df.len >= ps.train_window + 1
              /\ Cardinality(Buildable(ps.df.len, ps.train_window)) >= MinSamples

\* C21 witness: a series long enough for the window, of which 49 samples can
\* be built; no stage raised and the database was ready, and predict_signal
\* returned none and wrote nothing.
C21_Witness ==
    /\ ps.called
    /\ ps.df.kind = "series" /\ ps.df.len >= ps.train_window + 1
    /\ Cardinality(Buildable(ps.df.len, ps.train_window)) = MinSamples - 1
    /\ get_next_trading_day(ps.df.last, 1, ps.cal).kind = "date"
    /\ ps.samples = "ok" /\ ps.fit = "ok" /\ ps.feat_pred = "ok" /\ ps.senti = "ok"
    /\ ps.saved = "ok"
    /\ ps.returned = ReturnsNone
    /\ predict_results = {}

\* the call has reached the loop over train_dates
Trained ==
    /\ ps.called
    /\ ps.df.kind = "series" /\ ps.df.len >= ps.train_window + 1
    /\ get_next_trading_day(ps.df.last, 1, ps.cal).kind = "date"

\* C22: every training sample is of a day d among the train_window bars
\* before the latest bar, its features are of bars up to d, its label is of
\* the closes of d and of the bar after d, which exists, and d is never the
\* latest bar; the features of the prediction are of bars up to the latest.
C22_NoLookahead ==
    Trained =>
        LET n == ps.df.len
        IN  /\ \A e \in X_train(n, ps.train_window) :
                  /\ e.d >= n - 1 - ps.train_window /\ e.d <= n - 2
                  /\ e.upto <= e.d
                  /\ e.next_day = e.d + 1 /\ e.next_day <= n - 1
                  /\ e.d # n - 1
            /\ df_upto_as_of_date(n).last <= n - 1

\* C22 witness: a result trained on the default window, with a sample of
\* the bar before the latest and none of the latest.
C22_Witness ==
    /\ Trained
    /\ ps.train_window = TrainWindow
    /\ ps.returned.kind = "result"
    /\ \E e \in X_train(ps.df.len, ps.train_window) : e.d = ps.df.len - 2
    /\ Cardinality(X_train(ps.df.len, ps.train_window)) = TrainWindow + 1 - MinFeatureRows

\* the decision list of the specification, first match wins
DecisionList(p, rsi, priceAboveBB, momWeakening, drawdown5d) ==
    CASE p > 60 /\ rsi < 70 /\ ~priceAboveBB /\ ~momWeakening -> "enter"
      [] ~(p > 60 /\ rsi < 70 /\ ~priceAboveBB /\ ~momWeakening)
         /\ (p > 55 /\ rsi < 75) -> "hold"
      [] ~(p > 60 /\ rsi < 70 /\ ~priceAboveBB /\ ~momWeakening)
         /\ ~(p > 55 /\ rsi < 75)
         /\ (p < 50 \/ rsi > 75 \/ (priceAboveBB /\ momWeakening) \/ drawdown5d > 8) -> "reduce"
      [] OTHER -> "hold"

\* C23: the signal is that of the ordered decision list of its five inputs:
\* (0.65, 50, False, False, 0.02) gives enter, (0.45, 80, any, any, any)
\* gives reduce, (0.57, 60, any, any, 0.01) gives hold.
C23_SignalIsDecisionList ==
    sg.called =>
        /\ sg.signal = DecisionList(sg.prob, sg.rsi, sg.price_above_bb, sg.mom_weakening,
                                    sg.drawdown_5d)
        /\ (sg.prob = 65 /\ sg.rsi = 50 /\ ~sg.price_above_bb /\ ~sg.mom_weakening
               /\ sg.drawdown_5d = 2) => sg.signal = "enter"
        /\ (sg.prob = 45 /\ sg.rsi = 80) => sg.signal = "reduce"
        /\ (sg.prob = 57 /\ sg.rsi = 60 /\ sg.drawdown_5d = 1) => sg.signal = "hold"

\* C23 witness: an input that is a reduce by its drawdown alone, which the
\* second test has made a hold.
C23_Witness ==
    /\ sg.called
    /\ sg.prob = 57 /\ sg.rsi = 60 /\ sg.drawdown_5d = 9
    /\ sg.price_above_bb /\ sg.mom_weakening
    /\ sg.signal = "hold"

\* the trading days of a calendar after a date, and before it
DaysAfter(d, cal) == {x \in cal.trade_dates : x > d}
DaysBefore(d, cal) == {x \in cal.trade_dates : x < d}

\* C24: for a trading day d of the calendar that has a trading day after it,
\* get_previous_trading_day(get_next_trading_day(d)) is d.
C24_RoundTrip ==
    (/\ cq.fn = "roundtrip"
     /\ is_trading_day(cq.d, cq.cal)
     /\ DaysAfter(cq.d, cq.cal) # {})
    => cq.returned = Found(cq.d)

\* C24 witness: the round trip of a Friday, over the weekend and a holiday
\* of two days and back.
C24_Witness ==
    /\ cq.fn = "roundtrip"
    /\ is_trading_day(cq.d, cq.cal)
    /\ cq.next = Found(cq.d + 5)
    /\ cq.returned = Found(cq.d)

\* the count-th day of a set of days in ascending order, and in descending
\* order, as a set: empty when the set has fewer days
NthUp(S, count) == {x \in S : Cardinality({y \in S : y <= x}) = count}
NthDown(S, count) == {x \in S : Cardinality({y \in S : y >= x}) = count}

\* the date a query has returned, as a set: empty for None
ReturnedDates == IF cq.returned.kind = "date" THEN {cq.returned.date} ELSE {}

\* C25: get_next_trading_day(d, count) returns the count-th trading day of
\* the calendar after d, and none when the calendar has fewer than count days
\* after d; get_previous_trading_day likewise for the days before d.
C25_CountthDayOrNone ==
    /\ cq.fn = "next" =>
          /\ cq.returned.kind \in {"date", "none"}
          /\ ReturnedDates = NthUp(DaysAfter(cq.d, cq.cal), cq.count)
    /\ cq.fn = "previous" =>
          /\ cq.returned.kind \in {"date", "none"}
          /\ ReturnedDates = NthDown(DaysBefore(cq.d, cq.cal), cq.count)

\* minutes since midnight
MinuteOfDay(t) == HourOf(t) * 60 + MinuteOf(t)

\* C28: is_trading_hours is false on a day that is no trading day; on a
\* trading day it is false before 09:30, from 11:31 to 12:59 and from 15:01
\* on, and true after 09:30 and before 11:30, and after 13:00 and before
\* 15:00.
C28_TradingHours ==
    cq.fn = "hours" =>
        LET m == MinuteOfDay(cq.t)
        IN  IF ~is_trading_day(DateOf(cq.t), cq.cal) THEN ~cq.returned
            ELSE /\ (m < 9 * 60 + 30 \/ (m >= 11 * 60 + 31 /\ m <= 12 * 60 + 59)
                        \/ m >= 15 * 60 + 1) => ~cq.returned
                 /\ ((m > 9 * 60 + 30 /\ m < 11 * 60 + 30) \/ (m > 13 * 60 /\ m < 15 * 60))
                        => cq.returned

\* C28 witness: 12:00 of a trading day, outside the trading hours.
C28_Witness ==
    /\ cq.fn = "hours"
    /\ is_trading_day(DateOf(cq.t), cq.cal)
    /\ MinuteOfDay(cq.t) = 12 * 60
    /\ ~cq.returned

\* the trading days whose session is over at time t
Completed(t, cal) ==
    {d \in cal.trade_dates : d * SecondsPerDay + CloseHour * SecondsPerHour <= t}

\* C29: get_current_trading_day returns today inside the trading hours of
\* today; at any other time it returns the latest trading day whose session
\* is over, and none when there is no such day (calendars with a trading
\* day).
C29_TodayOnlyInsideHours ==
    (cq.fn = "current" /\ cq.cal.trade_dates # {}) =>
        IF is_trading_hours(cq.t, cq.cal)
        THEN cq.returned = Found(DateOf(cq.t))
        ELSE ReturnedDates = NthDown(Completed(cq.t, cq.cal), 1)

\* the calendar obtained before the latest call, as a set: that of the
\* memory, else that of the file, else none
Previous ==
    IF cevent.before.present THEN {cevent.before}
    ELSE IF cevent.fileBefore.exists THEN {cevent.fileBefore.calendar}
    ELSE {}

\* C26: a call on which the source fails returns, and leaves in the cache,
\* the trading days of the calendar obtained before, in the memory or in the
\* file; the calendar of every weekday is installed only when there is none.
C26_KeepsLastGoodCalendar ==
    (cevent.kind = "call" /\ cevent.contacted /\ cevent.source = "fail") =>
        IF Previous = {}
        THEN cevent.returned = WeekdayCalendar
        ELSE /\ cevent.returned \in Previous
             /\ trade_calendar_cache \in Previous

\* C27: a call less than 7 days after the latest rebuild, whose calendar is
\* in the memory or, after a restart, in the file, does not contact the
\* source and returns that calendar.
C27_SourceOncePerSevenDays ==
    (/\ cevent.kind = "call"
     /\ cevent.rebuiltBefore # NoUpdate
     /\ cevent.at - cevent.rebuiltBefore < CalTTL
     /\ \/ cevent.before.present
        \/ (cevent.fileBefore.exists /\ cevent.fileBefore.last_update = cevent.rebuiltBefore))
    => /\ ~cevent.contacted
       /\ cevent.returned \in Previous

\* C30: calc_features_safe returns none exactly for a window of fewer than
\* 60 rows; for a longer window of valid bars it returns the features, every
\* one of the fixed names present and finite.
C30_FeaturesFinite ==
    fv.called =>
        /\ fv.returned.kind = "none" <=> fv.len < MinFeatureRows
        /\ fv.returned.kind = "features" =>
              /\ DOMAIN fv.returned = FeatureNames \cup {"kind"}
              /\ \A f \in FeatureNames : fv.returned[f].finite

\* C30 witness: a window of 60 bars whose latest five volumes are 0 and
\* whose close has fallen and risen within the latest 14 days: the features
\* are returned, vol_ratio_5 is 1 and rsi_14 is the quotient.
C30_Witness ==
    /\ fv.called
    /\ fv.len = MinFeatureRows
    /\ fv.returned.kind = "features"
    /\ fv.ks = <<1, 4>>
    /\ fv.bars[1].volume = 0 /\ fv.bars[2].volume = 0
    /\ fv.bars[1].close > fv.bars[2].close /\ fv.bars[2].close < fv.bars[3].close
    /\ fv.returned.vol_ratio_5 = Whole(1)
    /\ fv.returned.rsi_14.finite /\ fv.returned.rsi_14 # Whole(50)

\* ---------------------------------------------------------------- C37
\* now is on a trading day of the calendar, before 15:00
BeforeClose(t) == is_trading_day(DateOf(t), CachedCalendar) /\ HourOf(t) < CloseHour

C38_QueryOnlyWhileInitialized ==
    /\ lastQuery.result # "none" => (lastQuery.flag /\ lastQuery.on = "fresh")
    /\ lastQuery.exact
    /\ bs_initialized => session = "open"

\* a query was sent after the login of the iteration succeeded, following a
\* query that had failed and cleared the flag
C38_Witness ==
    /\ lastQuery.result = "rows" /\ lastQuery.flag /\ lastQuery.failedBefore
    /\ nSecondary >= 2
    /\ bs_initialized

\* ---------------------------------------------------------------- C39
\* a step in which a call of backtest_ai_strategy_cached ends whose run of
\* backtest_ai_strategy returned None
FinishesWithNone ==
    \E t \in Threads :
        /\ bt[t].pc = "computing" /\ bt'[t].pc = "idle"
        /\ bevent'.kind = "call" /\ bevent'.computed /\ bevent'.ret = NoPayload

\* the latest completed call came next after a call with the same key whose
\* run returned None (calls of one process, none overlapping another)
AfterNone ==
    /\ bevent.kind = "call"
    /\ bevent.prev.made
    /\ cache_key(bevent.prev.req) = cache_key(bevent.req)
    /\ bevent.prev.ret = NoPayload
    /\ ~overlapped

\* C39: a call whose run returns None leaves the cache, the timestamps and
\* the file as they were and returns None; and the next call with the key
\* runs the backtest again.
C39_NoneIsNotStored ==
    /\ [][FinishesWithNone =>
            /\ backtest_cache' = backtest_cache
            /\ last_backtest_update' = last_backtest_update
            /\ cache_file' = cache_file
            /\ lastCall'.ret = NoPayload]_vars
    /\ [](AfterNone => bevent.computed)

\* a run returned None, and the next call with the key ran the backtest again
\* and stored its result
C39_Witness ==
    /\ AfterNone
    /\ bevent.computed
    /\ bevent.ret # NoPayload
    /\ backtest_cache[EventKey] = bevent.ret

\* ---------------------------------------------------------------- C35
\* the symbols of the date whose predicted probability is min_prob or more
Eligible == {y \in sc.considered : sc.predicted[y] >= sc.min_prob}

\* C35: in the scan backtest the probability of a symbol on a date is what
\* the walk-forward predictor gives for that symbol and date, and the
\* selection of the date is the top_k symbols by that probability among
\* those with min_prob or more.
C35_ProbabilityFromPredictor ==
    sc.called =>
        /\ \A g \in sc.signals : g.prob = sc.predicted[g.sym]
        /\ {g.sym : g \in sc.signals} = Eligible
        /\ LET chosen == {g.sym : g \in sc.selected}
           IN /\ chosen \subseteq Eligible
              /\ Cardinality(chosen) = IF Cardinality(Eligible) < sc.top_k
                                       THEN Cardinality(Eligible) ELSE sc.top_k
              /\ \A a \in chosen, b \in Eligible \ chosen :
                    sc.predicted[a] >= sc.predicted[b]

\* ---------------------------------------------------------------- C36
\* C36: under every interleaving of calls of batch_insert_stock_data for
\* different symbols, a call that has returned True has stored every row of
\* its batch under its symbol, and no call returns False (no statement fails
\* by itself here: a failure is the effect of another call).
C36_OwnRowsStored ==
    \A t \in Writers :
        ins[t].pc = "done" =>
            /\ ins[t].returned
            /\ \A b \in ins[t].df :
                  \E r \in store : r.symbol = ins[t].symbol /\ Bar(r) = b

\* ---------------------------------------------------------------- C33
\* the latest trade of a log
LastTrade(trades) == trades[Len(trades)]

\* the step simulates a bar and appends a trade of the action
Trades(action) ==
    /\ sim.pc = "run" /\ sim'.pc = "run"
    /\ Len(sim'.trades) = Len(sim.trades) + 1
    /\ LastTrade(sim'.trades).action = action

\* C33: at every step of the simulation capital >= 0 and shares is a
\* non-negative multiple of 100; a buy happens only at prob > 0.6 with no
\* shares held and takes its amount times (1 + transaction_cost) from the
\* capital; a sell happens only at prob < 0.4 with shares held, leaves no
\* shares and adds its amount times (1 - transaction_cost) to the capital;
\* a bar without a trade changes neither.
C33_CashAndLots ==
    /\ [](sim.pc = "run" => (sim.capital >= 0 /\ sim.shares >= 0 /\ sim.shares % 100 = 0))
    /\ [][/\ Trades("buy") =>
              /\ sim'.prob > BuyAbove /\ sim.shares = 0
              /\ sim.capital - sim'.capital
                    = (sim'.shares \div 100) * sim'.close * (1000 + sim.transaction_cost)
          /\ Trades("sell") =>
              /\ sim'.prob < SellBelow /\ sim.shares > 0
              /\ sim'.shares = 0
              /\ sim'.capital - sim.capital
                    = (sim.shares \div 100) * sim'.close * (1000 - sim.transaction_cost)
          /\ (sim.pc = "run" /\ sim'.pc = "run" /\ sim'.trades = sim.trades) =>
              (sim'.capital = sim.capital /\ sim'.shares = sim.shares)]_vars

\* a buy and a later sell at a lower price, both charged the transaction
\* cost, have left less capital than at the start
C33_Witness ==
    /\ sim.pc = "run"
    /\ sim.transaction_cost > 0
    /\ Len(sim.trades) = 2
    /\ sim.trades[1].action = "buy" /\ sim.trades[1].shares > 0
    /\ sim.trades[2].action = "sell" /\ sim.trades[2].price < sim.trades[1].price
    /\ sim.shares = 0 /\ sim.capital < sim.initial_capital /\ sim.capital > 0

\* ---------------------------------------------------------------- C34
\* C34: the win rate of the result is the number of sells whose total value
\* exceeded the initial capital, over the number of sells, in percent; 0
\* without a sell.
C34_WinRateOverSells ==
    sim.pc = "done" =>
        LET sells == {i \in DOMAIN sim.trades : sim.trades[i].action = "sell"}
            wins == {i \in sells : sim.trades[i].total_value > sim.initial_capital}
        IN IF sells = {} THEN sim.win_rate_pct.num = 0
           ELSE sim.win_rate_pct.num * Cardinality(sells)
                    = 100 * Cardinality(wins) * sim.win_rate_pct.den

\* ---------------------------------------------------------------- C40
\* C40: every buy of the trade log has a positive number of shares, and the
\* log alternates buy, sell, buy, ... from a buy.
C40_LogAlternates ==
    sim.pc = "run" =>
        \A i \in DOMAIN sim.trades :
            /\ sim.trades[i].action = (IF i % 2 = 1 THEN "buy" ELSE "sell")
            /\ sim.trades[i].action = "buy" => sim.trades[i].shares > 0

\* ---------------------------------------------------------------- C31
\* the block of a position: blocks of TestWindow bars from position 100
BlockOf(pos) == WalkTrainWindow + TestWindow * ((pos - WalkTrainWindow) \div TestWindow)

\* C31: a run that returns a result has one daily value for every bar from
\* position 100 on and no other, in the order of the bars, each simulated
\* with the model of its block of 10 bars.
C31_EveryBarFromHundred ==
    (bk.pc = "done" /\ bk.result = "result") =>
        /\ Len(bk.daily_values) = bk.n - WalkTrainWindow
        /\ \A k \in DOMAIN bk.daily_values :
              /\ bk.daily_values[k].pos = WalkTrainWindow + k - 1
              /\ bk.daily_values[k].block = BlockOf(bk.daily_values[k].pos)

\* ---------------------------------------------------------------- C32
\* C32: the model that decides at a test bar was trained on windows and
\* labels that read only bars before the first bar of the block of that bar,
\* and the features of the decision read only bars before the bar.
C32_WalkForwardNoLookahead ==
    bk.pc # "none" =>
        \A k \in DOMAIN bk.daily_values :
            LET v == bk.daily_values[k]
            IN /\ v.block <= v.pos
               /\ v.train_feat_last < v.block
               /\ v.train_label_last < v.block
               /\ v.feat_last < v.pos

\* a run over several blocks, the last of them shorter than 10 bars: the
\* label of the latest sample reads the bar just before the block, and the
\* window of the decision ends at the bar before the test bar
C32_Witness ==
    /\ bk.pc = "done" /\ bk.result = "result"
    /\ bk.n % TestWindow # 0
    /\ \E k \in DOMAIN bk.daily_values :
        LET v == bk.daily_values[k]
        IN /\ v.pos = bk.n - 1
           /\ v.pos > v.block
           /\ v.train_label_last = v.block - 1
           /\ v.feat_last = v.pos - 1

====
